---------------------------- MODULE Spec2Model ----------------------------
(***************************************************************************)
(* Model of the C9 energy settlement pipeline (automate_consumption_data,  *)
(* automate_generation_data, automate_settlement).                         *)
(*                                                                         *)
(* The workbooks the stages pass to each other are the variable `sheets`:  *)
(* one table (a sequence of rows, in sheet order) per sheet name.  A stage *)
(* is one action: it reads its input sheets and writes its output sheet.   *)
(*                                                                         *)
(* Energy values are exact integers.  The code's floats are read as the    *)
(* exact rationals they approximate: hourly consumption is drawn from      *)
(* multiples of 4 so that the division by 4 is exact (as it is in binary   *)
(* floating point), and the banking stage, whose factors are 1.08 and      *)
(* 0.92, keeps its figures in 1/10000 of a unit.                           *)
(***************************************************************************)
EXTENDS Integers, Sequences, FiniteSets, TLC

VARIABLES pc, sheets

vars == <<pc, sheets>>

(***************************************************************************)
(* Generic helpers.                                                        *)
(***************************************************************************)
Min(a, b) == IF a < b THEN a ELSE b

Max(a, b) == IF a > b THEN a ELSE b

Range(s) == {s[i] : i \in DOMAIN s}

RECURSIVE SumSeq(_)
SumSeq(s) == IF s = <<>> THEN 0 ELSE Head(s) + SumSeq(Tail(s))

\* Column c of table t, as a sequence.
Col(t, c) == [i \in DOMAIN t |-> t[i][c]]

\* All orderings of the finite set S, as sequences without repetition.
RECURSIVE Perms(_)
Perms(S) == IF S = {} THEN {<<>>}
            ELSE UNION {{<<x>> \o p : p \in Perms(S \ {x})} : x \in S}

(***************************************************************************)
(* Text.  Site names are kept as strings in the rows; Text gives the      *)
(* characters of each string the model uses, so that str.upper, equality   *)
(* of upper-cased names and substring search are computed on characters.   *)
(***************************************************************************)
Lowers == <<"a","b","c","d","e","f","g","h","i","j","k","l","m",
            "n","o","p","q","r","s","t","u","v","w","x","y","z">>

Uppers == <<"A","B","C","D","E","F","G","H","I","J","K","L","M",
            "N","O","P","Q","R","S","T","U","V","W","X","Y","Z">>

UpperChar(c) == IF \E i \in DOMAIN Lowers : Lowers[i] = c
                THEN Uppers[CHOOSE i \in DOMAIN Lowers : Lowers[i] = c]
                ELSE c

LowerChar(c) == IF \E i \in DOMAIN Uppers : Uppers[i] = c
                THEN Lowers[CHOOSE i \in DOMAIN Uppers : Uppers[i] = c]
                ELSE c

\* str.upper() and str.lower() on a sequence of characters
UpperText(t) == [i \in DOMAIN t |-> UpperChar(t[i])]

LowerText(t) == [i \in DOMAIN t |-> LowerChar(t[i])]

\* p in s (Python substring test) on sequences of characters
IsSubstring(p, s) ==
    \E k \in 0..(Len(s) - Len(p)) : \A i \in 1..Len(p) : s[k + i] = p[i]

\* The sheet names of split_units_to_hourly are the keys of unit_values;
\* the model keeps four of the eleven sites: two priority sites and two others.
UnitNames == <<"Malleswaram", "Bellandur", "Sahakar Nagar", "Whitefield">>

priority_units == <<"MALLESWARAM", "SAHAKAR NAGAR", "HRBR UNIT", "OLD AIRPORT ROAD">>

\* add_unit_id's site -> code table, for the sites of the model
unit_map == [u \in {"MALLESWARAM", "BELLANDUR", "SAHAKAR NAGAR", "WHITEFIELD"} |->
               CASE u = "MALLESWARAM"   -> "C2HT-136"
                 [] u = "BELLANDUR"     -> "S11HT-124"
                 [] u = "SAHAKAR NAGAR" -> "C8HT-111"
                 [] u = "WHITEFIELD"    -> "E4HT-355"]

\* The composite keys "NAME (CODE)" add_unit_id produces for those sites
UnitKeys == <<"MALLESWARAM (C2HT-136)", "BELLANDUR (S11HT-124)",
              "SAHAKAR NAGAR (C8HT-111)", "WHITEFIELD (E4HT-355)">>

Text == [s \in Range(UnitNames) \cup Range(priority_units) \cup DOMAIN unit_map
               \cup Range(unit_map) \cup Range(UnitKeys)
               \cup {"HRBR Unit", "Annexe 1/2", "ANNEXE 1/2", "ANNEXE 1/2 ()"} |->
    CASE s = "Malleswaram"   -> <<"M","a","l","l","e","s","w","a","r","a","m">>
      [] s = "HRBR Unit"     -> <<"H","R","B","R"," ","U","n","i","t">>
      [] s = "Annexe 1/2"    -> <<"A","n","n","e","x","e"," ","1","/","2">>
      [] s = "ANNEXE 1/2"    -> <<"A","N","N","E","X","E"," ","1","/","2">>
      [] s = "ANNEXE 1/2 ()" -> <<"A","N","N","E","X","E"," ","1","/","2"," ","(",")">>
      [] s = "Bellandur"     -> <<"B","e","l","l","a","n","d","u","r">>
      [] s = "Sahakar Nagar" -> <<"S","a","h","a","k","a","r"," ","N","a","g","a","r">>
      [] s = "Whitefield"    -> <<"W","h","i","t","e","f","i","e","l","d">>
      [] s = "MALLESWARAM"   -> <<"M","A","L","L","E","S","W","A","R","A","M">>
      [] s = "BELLANDUR"     -> <<"B","E","L","L","A","N","D","U","R">>
      [] s = "SAHAKAR NAGAR" -> <<"S","A","H","A","K","A","R"," ","N","A","G","A","R">>
      [] s = "WHITEFIELD"    -> <<"W","H","I","T","E","F","I","E","L","D">>
      [] s = "HRBR UNIT"     -> <<"H","R","B","R"," ","U","N","I","T">>
      [] s = "OLD AIRPORT ROAD" ->
            <<"O","L","D"," ","A","I","R","P","O","R","T"," ","R","O","A","D">>
      [] s = "C2HT-136"      -> <<"C","2","H","T","-","1","3","6">>
      [] s = "S11HT-124"     -> <<"S","1","1","H","T","-","1","2","4">>
      [] s = "C8HT-111"      -> <<"C","8","H","T","-","1","1","1">>
      [] s = "E4HT-355"      -> <<"E","4","H","T","-","3","5","5">>
      [] s = "MALLESWARAM (C2HT-136)" ->
            <<"M","A","L","L","E","S","W","A","R","A","M"," ","(",
              "C","2","H","T","-","1","3","6",")">>
      [] s = "BELLANDUR (S11HT-124)" ->
            <<"B","E","L","L","A","N","D","U","R"," ","(",
              "S","1","1","H","T","-","1","2","4",")">>
      [] s = "SAHAKAR NAGAR (C8HT-111)" ->
            <<"S","A","H","A","K","A","R"," ","N","A","G","A","R"," ","(",
              "C","8","H","T","-","1","1","1",")">>
      [] s = "WHITEFIELD (E4HT-355)" ->
            <<"W","H","I","T","E","F","I","E","L","D"," ","(",
              "E","4","H","T","-","3","5","5",")">>]

\* The string of the model whose characters are t
StringOf(t) == CHOOSE s \in DOMAIN Text : Text[s] = t

\* s.upper() of every string of the model
UpperOf == [s \in DOMAIN Text |-> UpperText(Text[s])]

\* u.upper() == unit.upper(), the mask of the priority pass
SameUpper(u, unit) == UpperOf[u] = UpperOf[unit]

\* priority site of the allocation stage: upper-cased name IS one of the list
IsPriorityUnit(u) == \E k \in DOMAIN priority_units : SameUpper(u, priority_units[k])


(***************************************************************************)
(* Workbook storage.  The consolidated consumption workbook holds the      *)
(* sheets hourly, hourly1, ToD, 15_mins and daily; the generation workbook *)
(* the sheet "15 mins" (here gen_15_mins); the merged workbook the sheets  *)
(* "15 mins", matched_settlement, matched_settlement_with_id, monthly,     *)
(* banking_settlement and monthly_saving; aggregate_hourly writes a        *)
(* workbook of its own (here hourly_merged).  A sheet not yet written is   *)
(* the empty sequence.  With_Percentages is the sheet of the HRBR          *)
(* workbook, hourly_units the workbook of per-site sheets and unit_values  *)
(* the argument of split_units_to_hourly.  The same store holds what the   *)
(* application keeps beside the workbooks: processing_results and          *)
(* step_placeholders of a run, the session_state (one record, or empty     *)
(* before anything was set), the file names in the run's temporary         *)
(* directory (tmpdir) and the project folders under "Final Files".         *)
(***************************************************************************)
SheetNames == {"With_Percentages", "unit_values", "hourly_units", "hourly", "hourly1",
               "ToD", "15_mins", "daily", "generation", "15min_Data", "gen_15_mins", "15 mins", "hourly_merged", "matched_settlement",
               "matched_settlement_with_id", "monthly", "banking_settlement",
               "monthly_saving", "processing_results", "step_placeholders",
               "session_state", "tmpdir", "Final Files"}

NoSheets == [n \in SheetNames |-> <<>>]

\* to_excel(..., sheet_name=name): the sheet is replaced, the others kept
WriteSheet(book, name, table) == [book EXCEPT ![name] = table]

\* The orchestrator's processing_steps, in their declared order.  pc names
\* the step that runs next, "done" after the last one.
processing_steps ==
    <<"save_hrbr_file", "process_hrbr_consumption", "split_units_to_hourly",
      "consolidate_units_hourly", "add_tod_slot", "merge_hourly_to_tod",
      "split_hourly_to_15min", "merge_hourly_to_daily", "save_generation_file",
      "aggregate_15min", "split_date_time", "merge_generation_consumption",
      "aggregate_hourly", "calculate_matched_settlement", "add_unit_id",
      "monthly_aggregation", "apply_monthly_banking_settlement",
      "calculate_savings_comparison">>

StepIndex(step) ==
    IF step = "done" THEN Len(processing_steps) + 1
    ELSE CHOOSE i \in DOMAIN processing_steps : processing_steps[i] = step

\* The step after `step`
\* A loop that leaves out every other step
StepAfterNext(step) ==
    IF StepIndex(step) + 1 >= Len(processing_steps) THEN "done"
    ELSE processing_steps[StepIndex(step) + 2]

StepAfter(step) ==
    IF StepIndex(step) >= Len(processing_steps) THEN "done"
    ELSE processing_steps[StepIndex(step) + 1]

\* `step` has run
Past(step) == StepIndex(pc) > StepIndex(step)

(***************************************************************************)
(* Allocation Engine: merge_generation_consumption.                        *)
(***************************************************************************)
\* A selection that also leaves out the rows without consumption
SlotDfPositive(cons_df, date, time) ==
    LET InSlot(r) == r.Date = date /\ r.Time = time /\ r.Consumption > 0
        rows == SelectSeq(cons_df, InSlot)
    IN [i \in DOMAIN rows |->
          [Date |-> rows[i].Date, Time |-> rows[i].Time, Unit |-> rows[i].Unit,
           ToD_Slot |-> rows[i].ToD_Slot, Consumption |-> rows[i].Consumption,
           Generation_value |-> 0, Surplus_Generation |-> 0, Surplus_Demand |-> 0]]

\* slot_df = cons_df[(Date == date) & (Time == time)].copy(), with the three
\* result columns set to 0.0
SlotDf(cons_df, date, time) ==
    LET InSlot(r) == r.Date = date /\ r.Time = time
        rows == SelectSeq(cons_df, InSlot)
    IN [i \in DOMAIN rows |->
          [Date |-> rows[i].Date, Time |-> rows[i].Time, Unit |-> rows[i].Unit,
           ToD_Slot |-> rows[i].ToD_Slot, Consumption |-> rows[i].Consumption,
           Generation_value |-> 0, Surplus_Generation |-> 0, Surplus_Demand |-> 0]]

\* The whole pool given to the site, whatever its consumption
AssignedAll(cons_val, generation_available) == generation_available

\* assigned = min(cons_val, generation_available)
Assigned(cons_val, generation_available) == Min(cons_val, generation_available)

\* The priority pass, from the k-th name of priority_units on.  The loop
\* breaks as soon as the pool is not positive; the names after the break
\* are not visited and their rows keep the columns' initial 0.
RECURSIVE PriorityPass(_, _, _)
PriorityPass(slot_df, generation_available, k) ==
    IF k > Len(priority_units) \/ generation_available <= 0
    THEN [df |-> slot_df, avail |-> generation_available]
    ELSE LET mask == {i \in DOMAIN slot_df : SameUpper(slot_df[i].Unit, priority_units[k])}
         IN IF mask = {}
            THEN PriorityPass(slot_df, generation_available, k + 1)
            ELSE LET first    == CHOOSE i \in mask : \A j \in mask : i <= j
                     cons_val == slot_df[first].Consumption
                     assigned == Assigned(cons_val, generation_available)
                     df2 == [i \in DOMAIN slot_df |->
                               IF i \in mask
                               THEN [slot_df[i] EXCEPT
                                       !.Generation_value = assigned,
                                       !.Surplus_Demand =
                                           IF assigned < cons_val
                                           THEN cons_val - assigned ELSE @]
                               ELSE slot_df[i]]
                 IN PriorityPass(df2, generation_available - assigned, k + 1)

\* Index labels of the rows that are not priority sites
RemainingIdx(slot_df) == {i \in DOMAIN slot_df : ~IsPriorityUnit(slot_df[i].Unit)}

\* A sort in ascending order
AscendingOrders(slot_df) ==
    {p \in Perms({i \in DOMAIN slot_df : ~IsPriorityUnit(slot_df[i].Unit)}) :
        \A i, j \in DOMAIN p : i < j => slot_df[p[i]].Consumption <= slot_df[p[j]].Consumption}

\* remaining.sort_values(by="Consumption", ascending=False): every ordering
\* of the remaining rows with non-increasing consumption.  The default sort
\* is not stable, so rows of equal consumption may come in either order.
DescendingOrders(slot_df) ==
    {p \in Perms(RemainingIdx(slot_df)) :
        \A i, j \in DOMAIN p : i < j => slot_df[p[i]].Consumption >= slot_df[p[j]].Consumption}

\* The pass over the remaining rows in the sorted order, from position n on
RECURSIVE RemainingPass(_, _, _, _)
RemainingPass(slot_df, generation_available, order, n) ==
    IF n > Len(order)
    THEN [df |-> slot_df, avail |-> generation_available]
    ELSE LET idx      == order[n]
             cons_val == slot_df[idx].Consumption
         IN IF generation_available <= 0
            THEN RemainingPass([slot_df EXCEPT ![idx].Surplus_Demand = cons_val],
                               generation_available, order, n + 1)
            ELSE LET assigned == Assigned(cons_val, generation_available)
                 IN RemainingPass(
                      [slot_df EXCEPT ![idx].Generation_value = assigned,
                                      ![idx].Surplus_Demand =
                                          IF assigned < cons_val
                                          THEN cons_val - assigned ELSE @],
                      generation_available - assigned, order, n + 1)

\* What is left of the pool goes to the row with the last index label
ResidualSurplus(slot_df, generation_available) ==
    IF generation_available > 0 /\ slot_df # <<>>
    THEN [slot_df EXCEPT ![Len(slot_df)].Surplus_Generation = generation_available]
    ELSE slot_df

\* One iteration of the loop over the generation slots
AllocSlot(generation_available, slot_df, order) ==
    LET p == PriorityPass(slot_df, generation_available, 1)
        r == RemainingPass(p.df, p.avail, order, 1)
    IN ResidualSurplus(r.df, r.avail)

\* rename Consumption -> Consumption_value and the column selection
FinalRow(r) ==
    [Date |-> r.Date, Time |-> r.Time, Unit |-> r.Unit, ToD_Slot |-> r.ToD_Slot,
     Consumption_value |-> r.Consumption, Generation_value |-> r.Generation_value,
     Surplus_Generation |-> r.Surplus_Generation, Surplus_Demand |-> r.Surplus_Demand]

\* The (Date, Time) groups of gen_df, in groupby's sorted key order
GenSlots(gen_df) == {<<r.Date, r.Time>> : r \in Range(gen_df)}

SlotBefore(a, b) == a[1] < b[1] \/ (a[1] = b[1] /\ a[2] < b[2])

SortedSlots(S) == CHOOSE p \in Perms(S) : \A i, j \in DOMAIN p : i < j => SlotBefore(p[i], p[j])

\* gen_row["Day Gen (KWh)"].values[0]: the first row of the group
SlotGeneration(gen_df, slot) ==
    LET InSlot(r) == r.Date = slot[1] /\ r.Time = slot[2]
    IN Head(SelectSeq(gen_df, InSlot)).DayGen

\* The ways the sorts of the slots n.. of `slots` can come out: one order
\* per slot, in the order of `slots`
RECURSIVE SortChoices(_, _, _)
SortChoices(cons_df, slots, n) ==
    IF n > Len(slots) THEN {<<>>}
    ELSE {<<o>> \o rest :
            o \in DescendingOrders(SlotDf(cons_df, slots[n][1], slots[n][2])),
            rest \in SortChoices(cons_df, slots, n + 1)}

RECURSIVE ConcatSlots(_, _, _, _, _)
ConcatSlots(gen_df, cons_df, choice, slots, n) ==
    IF n > Len(slots) THEN <<>>
    ELSE LET s   == slots[n]
             out == AllocSlot(SlotGeneration(gen_df, s), SlotDf(cons_df, s[1], s[2]), choice[n])
         IN [i \in DOMAIN out |-> FinalRow(out[i])]
            \o ConcatSlots(gen_df, cons_df, choice, slots, n + 1)

\* A merge that keeps, with zeros, the consumption rows of the slots
\* without a generation record
MergeKeepingConsumption(gen_df, cons_df, choice) ==
    LET Unmatched(r) == <<r.Date, r.Time>> \notin GenSlots(gen_df)
        kept == SelectSeq(cons_df, Unmatched)
    IN ConcatSlots(gen_df, cons_df, choice, SortedSlots(GenSlots(gen_df)), 1)
       \o [i \in DOMAIN kept |-> FinalRow(SlotDf(<<kept[i]>>, kept[i].Date, kept[i].Time)[1])]

\* The sheet "15 mins" merge_generation_consumption writes
MergeGenerationConsumption(gen_df, cons_df, choice) ==
    ConcatSlots(gen_df, cons_df, choice, SortedSlots(GenSlots(gen_df)), 1)

\* Step "Merging Generation and Consumption"
MergeGenerationConsumptionStep ==
    /\ pc = "merge_generation_consumption"
    /\ \E choice \in SortChoices(sheets["15_mins"],
                                  SortedSlots(GenSlots(sheets["gen_15_mins"])), 1) :
          sheets' = WriteSheet(sheets, "15 mins",
                       MergeGenerationConsumption(sheets["gen_15_mins"], sheets["15_mins"], choice))
    /\ pc' = StepAfter(pc)


(***************************************************************************)
(* ToD classification: the two get_tod_slot functions.                     *)
(***************************************************************************)
\* The morning peak taken to end at 10
get_tod_slot_ten(hour) ==
    IF (22 <= hour /\ hour <= 23) \/ (0 <= hour /\ hour < 6) THEN "Night Off Peak"
    ELSE IF 6 <= hour /\ hour < 10 THEN "Morning Peak"
    ELSE IF 10 <= hour /\ hour < 18 THEN "Day Normal"
    ELSE IF 18 <= hour /\ hour < 22 THEN "Evening Peak"
    ELSE "None"

\* get_tod_slot of add_tod_slot
get_tod_slot(hour) ==
    IF (22 <= hour /\ hour <= 23) \/ (0 <= hour /\ hour < 6) THEN "Night Off Peak"
    ELSE IF 6 <= hour /\ hour < 9 THEN "Morning Peak"
    ELSE IF 9 <= hour /\ hour < 18 THEN "Day Normal"
    ELSE IF 18 <= hour /\ hour < 22 THEN "Evening Peak"
    ELSE "None"

\* get_tod_slot of merge_hourly_to_tod
get_tod_slot_merge(hour) ==
    IF (22 <= hour /\ hour <= 23) \/ (0 <= hour /\ hour < 6) THEN "Night Off Peak"
    ELSE IF 6 <= hour /\ hour < 10 THEN "Morning Peak"
    ELSE IF 10 <= hour /\ hour < 18 THEN "Day Normal"
    ELSE IF 18 <= hour /\ hour < 22 THEN "Evening Peak"
    ELSE "None"

(***************************************************************************)
(* Specification SpecAlloc: merge_generation_consumption on bounded input  *)
(* sheets.  Times are minutes after midnight.  The consumption sheet holds *)
(* rows of two slots of one hour: in the first slot any subset of the      *)
(* sites with any consumption up to MaxCons, in the second at most a row   *)
(* of the last site.  Neither sheet is empty (aggregate_15min validates    *)
(* that of the generation; the hourly sheet the consumption is split from  *)
(* has the rows of the validated HRBR file); the generation sheet holds a  *)
(* record for either slot or both.                                         *)
(***************************************************************************)
MaxCons == 2

MaxGen == 3

Absent == -1

AllocDate == 1

AllocHour == 10

SlotA == AllocHour * 60

SlotB == AllocHour * 60 + 15

ConsRow(date, time, unit, cons) ==
    [Date |-> date, Time |-> time, Consumption |-> cons, Unit |-> unit,
     ToD_Slot |-> get_tod_slot(time \div 60)]

GenRow(date, time, g) == [Date |-> date, Time |-> time, DayGen |-> g]

\* The 15_mins sheet: the rows of each site together, sites in sheet order
RECURSIVE AllocConsSheet(_, _, _)
AllocConsSheet(consA, consB, u) ==
    IF u > Len(UnitNames) THEN <<>>
    ELSE (IF consA[u] = Absent THEN <<>>
          ELSE <<ConsRow(AllocDate, SlotA, UnitNames[u], consA[u])>>)
         \o (IF consB[u] = Absent THEN <<>>
             ELSE <<ConsRow(AllocDate, SlotB, UnitNames[u], consB[u])>>)
         \o AllocConsSheet(consA, consB, u + 1)

AllocGenSheet(genA, genB) ==
    (IF genA = Absent THEN <<>> ELSE <<GenRow(AllocDate, SlotA, genA)>>)
    \o (IF genB = Absent THEN <<>> ELSE <<GenRow(AllocDate, SlotB, genB)>>)

NoneAbsent == [u \in DOMAIN UnitNames |-> Absent]

\* The two allocation examples of the specification's section 8:
\* generation 100 with a priority site of demand 60 and another of demand 50,
\* and generation 30 with one non-priority site of demand 50.
ExampleAllocInputs ==
    { [gen  |-> AllocGenSheet(100, Absent),
       cons |-> AllocConsSheet([NoneAbsent EXCEPT ![1] = 60, ![4] = 50], NoneAbsent, 1)],
      [gen  |-> AllocGenSheet(30, Absent),
       cons |-> AllocConsSheet([NoneAbsent EXCEPT ![4] = 50], NoneAbsent, 1)] }

BoundedAllocInputs ==
    { [gen  |-> AllocGenSheet(genA, genB),
       cons |-> AllocConsSheet(consA, [NoneAbsent EXCEPT ![Len(UnitNames)] = lastB], 1)] :
        genA \in {Absent} \cup 0..MaxGen, genB \in {Absent, 0, MaxGen},
        consA \in [DOMAIN UnitNames -> {Absent} \cup 0..MaxCons],
        lastB \in {Absent, MaxCons} }

InitAlloc ==
    /\ pc = "merge_generation_consumption"
    /\ \E in \in ExampleAllocInputs \cup BoundedAllocInputs :
          /\ in.gen # <<>>
          /\ in.cons # <<>>
          /\ sheets = [NoSheets EXCEPT !["gen_15_mins"] = in.gen, !["15_mins"] = in.cons]

NextAlloc == MergeGenerationConsumptionStep

SpecAlloc == InitAlloc /\ [][NextAlloc]_vars


(***************************************************************************)
(* Claims about the Allocation Engine (checked under SpecAlloc).           *)
(***************************************************************************)
\* The rows of the allocation output that belong to a slot
OutRows(slot) ==
    LET InSlot(r) == r.Date = slot[1] /\ r.Time = slot[2]
    IN SelectSeq(sheets["15 mins"], InSlot)

AllocatedIn(slot) == SumSeq(Col(OutRows(slot), "Generation_value"))

SurplusIn(slot) == SumSeq(Col(OutRows(slot), "Surplus_Generation"))

\* C1: allocation conservation.  For every slot with a generation record,
\* the Generation_value of the slot's output rows plus their
\* Surplus_Generation add up to the slot's input generation.
C1_Conservation ==
    Past("merge_generation_consumption") =>
        \A slot \in GenSlots(sheets["gen_15_mins"]) :
            AllocatedIn(slot) + SurplusIn(slot) = SlotGeneration(sheets["gen_15_mins"], slot)

\* The second example of section 8 as an input: generation 30, one
\* non-priority site of demand 50.
IsExample30 ==
    /\ Col(sheets["gen_15_mins"], "DayGen") = <<30>>
    /\ Col(sheets["15_mins"], "Consumption") = <<50>>
    /\ ~IsPriorityUnit(sheets["15_mins"][1].Unit)

\* C2: every output row has Generation_value <= Consumption_value, and its
\* Surplus_Demand is Consumption_value - Generation_value when that is
\* positive and 0 otherwise, for priority and non-priority sites alike;
\* generation 30 and one non-priority site of demand 50 give 30, 20 and 0.
C2_SurplusDemandRule ==
    Past("merge_generation_consumption") =>
        /\ \A r \in Range(sheets["15 mins"]) :
              /\ r.Generation_value <= r.Consumption_value
              /\ r.Surplus_Demand =
                    IF r.Generation_value < r.Consumption_value
                    THEN r.Consumption_value - r.Generation_value ELSE 0
        /\ IsExample30 =>
              /\ Col(sheets["15 mins"], "Generation_value") = <<30>>
              /\ Col(sheets["15 mins"], "Surplus_Demand") = <<20>>
              /\ Col(sheets["15 mins"], "Surplus_Generation") = <<0>>

\* C3: with zero generation in a slot every site of the slot, priority sites
\* included, gets Generation_value 0 and its whole consumption as
\* Surplus_Demand; more generally a site that gets nothing because the pool
\* is used up has its whole consumption as Surplus_Demand.
C3_ZeroGeneration ==
    Past("merge_generation_consumption") =>
        \A slot \in GenSlots(sheets["gen_15_mins"]) :
            LET G == SlotGeneration(sheets["gen_15_mins"], slot)
            IN /\ G = 0 =>
                     \A r \in Range(OutRows(slot)) :
                         r.Generation_value = 0 /\ r.Surplus_Demand = r.Consumption_value
               /\ AllocatedIn(slot) = G =>
                     \A r \in Range(OutRows(slot)) :
                         r.Generation_value = 0 => r.Surplus_Demand = r.Consumption_value


\* Position of a site in the priority list, 0 for a site that is not on it
PriorityRank(u) ==
    IF IsPriorityUnit(u)
    THEN CHOOSE k \in DOMAIN priority_units : SameUpper(u, priority_units[k])
    ELSE 0

\* o orders the rows as the Allocation Engine is said to visit them:
\* priority sites first, in list order, then the others by descending
\* consumption
IsAllocationOrder(rows, o) ==
    \A i, j \in DOMAIN o :
        i < j =>
            LET a == rows[o[i]]
                b == rows[o[j]]
            IN \/ PriorityRank(a.Unit) > 0 /\ PriorityRank(b.Unit) = 0
               \/ /\ PriorityRank(a.Unit) > 0 /\ PriorityRank(b.Unit) > 0
                  /\ PriorityRank(a.Unit) < PriorityRank(b.Unit)
               \/ /\ PriorityRank(a.Unit) = 0 /\ PriorityRank(b.Unit) = 0
                  /\ a.Consumption_value >= b.Consumption_value

\* What the rows before position i of the order have received
ReceivedBefore(rows, o, i) ==
    SumSeq([j \in 1..(i - 1) |-> rows[o[j]].Generation_value])

\* The first example of section 8 as an input: generation 100, a priority
\* site of demand 60 and another site of demand 50.
IsExample100 ==
    /\ Col(sheets["gen_15_mins"], "DayGen") = <<100>>
    /\ Col(sheets["15_mins"], "Consumption") = <<60, 50>>
    /\ IsPriorityUnit(sheets["15_mins"][1].Unit)
    /\ ~IsPriorityUnit(sheets["15_mins"][2].Unit)

\* C4: greedy priority order.  In every slot the rows can be put in an
\* order, priority sites first in list order and then the others by
\* descending consumption, in which every site receives the minimum of its
\* consumption and what the sites before it have left of the slot's
\* generation; so a site receives less than its consumption only if every
\* site after it receives nothing.  Generation 100 with a priority site of
\* demand 60 and another of demand 50 gives 60 and 40, surplus demand 0 and
\* 10, and no surplus generation.
C4_GreedyPriorityOrder ==
    Past("merge_generation_consumption") =>
        /\ \A slot \in GenSlots(sheets["gen_15_mins"]) :
              LET rows == OutRows(slot)
                  G    == SlotGeneration(sheets["gen_15_mins"], slot)
              IN \E o \in Perms(DOMAIN rows) :
                    /\ IsAllocationOrder(rows, o)
                    /\ \A i \in DOMAIN o :
                          /\ rows[o[i]].Generation_value =
                                Min(rows[o[i]].Consumption_value, G - ReceivedBefore(rows, o, i))
                          /\ rows[o[i]].Generation_value < rows[o[i]].Consumption_value =>
                                \A j \in DOMAIN o : j > i => rows[o[j]].Generation_value = 0
        /\ IsExample100 =>
              /\ Col(sheets["15 mins"], "Generation_value") = <<60, 40>>
              /\ Col(sheets["15 mins"], "Surplus_Demand") = <<0, 10>>
              /\ Col(sheets["15 mins"], "Surplus_Generation") = <<0, 0>>

\* C4 witness: a slot in which a priority site is served in full, a
\* non-priority site in part and a non-priority site of smaller consumption
\* not at all.
C4_Witness ==
    /\ Past("merge_generation_consumption")
    /\ \E slot \in GenSlots(sheets["gen_15_mins"]) :
          \E a, b, c \in Range(OutRows(slot)) :
              /\ IsPriorityUnit(a.Unit) /\ ~IsPriorityUnit(b.Unit) /\ ~IsPriorityUnit(c.Unit)
              /\ a.Consumption_value > 0 /\ a.Generation_value = a.Consumption_value
              /\ 0 < b.Generation_value /\ b.Generation_value < b.Consumption_value
              /\ 0 < c.Consumption_value /\ c.Consumption_value < b.Consumption_value
              /\ c.Generation_value = 0


(***************************************************************************)
(* Banking Settlement Engine: apply_monthly_banking_settlement.            *)
(*                                                                         *)
(* The factors 1.08 and 0.92 are the hundredths LossFactorPct and          *)
(* PartialFactorPct.  The pool and the three columns the stage adds are    *)
(* kept in 1/BankScale of the unit of the input columns, which makes every *)
(* product exact.                                                          *)
(***************************************************************************)
LossFactorPct == 108

PartialFactorPct == 92

BankScale == 100 * 100

\* The months a sheet can hold, in sorted order
MonthOrder == <<"2025-08", "2025-09">>

\* s.lower() of every string of the model
LowerOf == [s \in DOMAIN Text |-> LowerText(Text[s])]

\* p.lower() in u.lower(); str.contains(..., case=False) of one name
ContainsName(u, p) == IsSubstring(LowerOf[p], LowerOf[u])

\* For every string of the model, the position of the first name of
\* priority_units it contains (case-insensitive), 0 when it contains none
FirstNameIn == [s \in DOMAIN Text |->
    IF \E k \in DOMAIN priority_units : ContainsName(s, priority_units[k])
    THEN CHOOSE k \in DOMAIN priority_units :
            /\ ContainsName(s, priority_units[k])
            /\ \A j \in DOMAIN priority_units : ContainsName(s, priority_units[j]) => k <= j
    ELSE 0]

\* Unit.str.contains("|".join(priority_units), case=False, regex=True)
IsBankPriority(u) == FirstNameIn[u] > 0

\* The priority list read from its end
PriorityOrderFromEnd(u) == Len(priority_units) + 1 - FirstNameIn[u]

\* priority_units.index(next(p for p in priority_units if p.lower() in u.lower()))
PriorityOrder(u) == FirstNameIn[u]

\* ordered_units: pr_df sorted by PriorityOrder, then other_df sorted by
\* descending Surplus_Demand; rows that compare equal come in either order.
BankOrders(month_df) ==
    {o \in Perms(DOMAIN month_df) :
        \A i, j \in DOMAIN o :
            i < j =>
                LET a == month_df[o[i]]
                    b == month_df[o[j]]
                IN \/ IsBankPriority(a.Unit) /\ ~IsBankPriority(b.Unit)
                   \/ /\ IsBankPriority(a.Unit) /\ IsBankPriority(b.Unit)
                      /\ PriorityOrder(a.Unit) <= PriorityOrder(b.Unit)
                   \/ /\ ~IsBankPriority(a.Unit) /\ ~IsBankPriority(b.Unit)
                      /\ a.Surplus_Demand >= b.Surplus_Demand}

\* A debit that forgets the loss
FullDebitNoLoss(demand) == demand * BankScale

\* demand * 1.08, scaled
FullDebit(demand) == (demand * BankScale * LossFactorPct) \div 100

\* The loss factor applied the wrong way round
PartialSettlementInflated(total_gen) == (total_gen * LossFactorPct) \div 100

\* total_gen * 0.92, scaled
PartialSettlement(total_gen) == (total_gen * PartialFactorPct) \div 100

\* The deficit taken as untouched by the settlement
DemandLeftWhole(demand, settlement) == demand * BankScale

\* max(demand - settlement, 0), scaled
DemandAfterBanking(demand, settlement) == Max(demand * BankScale - settlement, 0)

\* A partial settlement that leaves the pool as it was
PoolKept(total_gen) == total_gen

\* total_gen = 0 after a partial settlement
PoolAfterPartial(total_gen) == 0

\* The loop over ordered_units, from position n on
RECURSIVE BankPass(_, _, _, _)
BankPass(month_df, total_gen, order, n) ==
    IF n > Len(order) THEN month_df
    ELSE LET idx    == order[n]
             demand == month_df[idx].Surplus_Demand
             full   == total_gen >= FullDebit(demand)
             settlement == IF full THEN demand * BankScale
                           ELSE IF total_gen > 0 THEN PartialSettlement(total_gen)
                           ELSE 0
             left   == IF full THEN total_gen - FullDebit(demand)
                       ELSE IF total_gen > 0 THEN PoolAfterPartial(total_gen)
                       ELSE total_gen
         IN BankPass(
              [month_df EXCEPT
                 ![idx].Settlement_with_Banking = settlement,
                 ![idx].Surplus_Generation_After_Banking = Max(left, 0),
                 ![idx].Surplus_Demand_After_Banking = DemandAfterBanking(demand, settlement)],
              left, order, n + 1)

\* month_df with the three new columns set to 0.0
WithBankColumns(r) ==
    [Month |-> r.Month, Unit |-> r.Unit, Consumption_value |-> r.Consumption_value,
     Generation_value |-> r.Generation_value, Surplus_Generation |-> r.Surplus_Generation,
     Surplus_Demand |-> r.Surplus_Demand, Matched_Settlement |-> r.Matched_Settlement,
     Settlement_with_Banking |-> 0, Surplus_Generation_After_Banking |-> 0,
     Surplus_Demand_After_Banking |-> 0]

\* The rows of one month, in sheet order
MonthDf(df, month) ==
    LET InMonth(r) == r.Month = month
        rows == SelectSeq(df, InMonth)
    IN [i \in DOMAIN rows |-> WithBankColumns(rows[i])]

\* A month whose pool counts every surplus twice
BankMonthDoubled(month_df, order) ==
    BankPass(month_df, 2 * SumSeq(Col(month_df, "Surplus_Generation")) * BankScale, order, 1)

\* One group of the loop over the months
BankMonth(month_df, order) ==
    BankPass(month_df, SumSeq(Col(month_df, "Surplus_Generation")) * BankScale, order, 1)

\* The ways the sorts of the months n.. can come out: one order per month
RECURSIVE BankChoices(_, _)
BankChoices(df, n) ==
    IF n > Len(MonthOrder) THEN {<<>>}
    ELSE {<<o>> \o rest :
            o \in BankOrders(MonthDf(df, MonthOrder[n])),
            rest \in BankChoices(df, n + 1)}

RECURSIVE ConcatMonths(_, _, _)
ConcatMonths(df, choice, n) ==
    IF n > Len(MonthOrder) THEN <<>>
    ELSE BankMonth(MonthDf(df, MonthOrder[n]), choice[n])
         \o ConcatMonths(df, choice, n + 1)

\* The sheet banking_settlement
ApplyMonthlyBankingSettlement(df, choice) == ConcatMonths(df, choice, 1)

\* Step "Applying Monthly Banking Settlement"
ApplyMonthlyBankingSettlementStep ==
    /\ pc = "apply_monthly_banking_settlement"
    /\ \E choice \in BankChoices(sheets["monthly"], 1) :
          sheets' = WriteSheet(sheets, "banking_settlement",
                       ApplyMonthlyBankingSettlement(sheets["monthly"], choice))
    /\ pc' = StepAfter(pc)

(***************************************************************************)
(* Specification SpecBank: apply_monthly_banking_settlement on a bounded   *)
(* monthly sheet of one month: any subset of the sites, each with a        *)
(* surplus demand up to MaxDemand and a surplus generation up to           *)
(* MaxSurplus, and the inputs of the banking example of section 8.         *)
(***************************************************************************)
MaxDemand == 2

MaxSurplus == 1

\* Sheet order of the monthly sheet: groupby sorts by Unit
KeyOrder == <<"BELLANDUR (S11HT-124)", "MALLESWARAM (C2HT-136)",
              "SAHAKAR NAGAR (C8HT-111)", "WHITEFIELD (E4HT-355)">>

MonthlyRow(month, unit, cons, gen, sg, sd, matched) ==
    [Month |-> month, Unit |-> unit, Consumption_value |-> cons, Generation_value |-> gen,
     Surplus_Generation |-> sg, Surplus_Demand |-> sd, Matched_Settlement |-> matched]

\* A monthly sheet from the demand and surplus of each site (Absent: no row)
RECURSIVE BankSheet(_, _, _)
BankSheet(sd, sg, u) ==
    IF u > Len(KeyOrder) THEN <<>>
    ELSE (IF sd[u] = Absent THEN <<>>
          ELSE <<MonthlyRow(MonthOrder[1], KeyOrder[u], sd[u], 0, sg[u], sd[u], 0)>>)
         \o BankSheet(sd, sg, u + 1)

NoKeys == [u \in DOMAIN KeyOrder |-> Absent]

\* Pool 100 with a priority site of demand 50 and another site of demand
\* 50 (section 8); the same sites with demand 25 and pools 27 (exactly
\* 1.08 x 25) and 26.
ExampleBankInputs ==
    { BankSheet([NoKeys EXCEPT ![2] = 50, ![4] = 50], [NoKeys EXCEPT ![2] = 100, ![4] = 0], 1),
      BankSheet([NoKeys EXCEPT ![2] = 25, ![4] = 25], [NoKeys EXCEPT ![2] = 0, ![4] = 27], 1),
      BankSheet([NoKeys EXCEPT ![2] = 25, ![4] = 25], [NoKeys EXCEPT ![2] = 26, ![4] = 0], 1) }

BoundedBankInputs ==
    { BankSheet(sd, sg, 1) :
        sd \in [DOMAIN KeyOrder -> {Absent} \cup 0..MaxDemand],
        sg \in [DOMAIN KeyOrder -> 0..MaxSurplus] }

InitBank ==
    /\ pc = "apply_monthly_banking_settlement"
    /\ \E monthly \in ExampleBankInputs \cup BoundedBankInputs :
          /\ monthly # <<>>
          /\ sheets = [NoSheets EXCEPT !["monthly"] = monthly]

NextBank == ApplyMonthlyBankingSettlementStep

SpecBank == InitBank /\ [][NextBank]_vars


(***************************************************************************)
(* Claims about the Banking Settlement Engine (checked under SpecBank).    *)
(***************************************************************************)
\* The rows of the banking sheet of one month
BankRows(month) ==
    LET InMonth(r) == r.Month = month
    IN SelectSeq(sheets["banking_settlement"], InMonth)

\* The month's pool before any site is processed, scaled
InitialPool(month) == SumSeq(Col(BankRows(month), "Surplus_Generation")) * BankScale

\* C5: banking never settles more than the outstanding deficit.  Every row
\* of the banking sheet has Settlement_with_Banking <= Surplus_Demand, and
\* so has every row the month's loop would produce in any other processing
\* order of the month's sites.
C5_SettlementWithinDemand ==
    Past("apply_monthly_banking_settlement") =>
        /\ \A r \in Range(sheets["banking_settlement"]) :
              r.Settlement_with_Banking <= r.Surplus_Demand * BankScale
        /\ \A m \in Range(MonthOrder) :
              \A o \in Perms(DOMAIN MonthDf(sheets["monthly"], m)) :
                  \A r \in Range(BankMonth(MonthDf(sheets["monthly"], m), o)) :
                      r.Settlement_with_Banking <= r.Surplus_Demand * BankScale

\* C5 witness: a month in which one site is settled in full and another in
\* part, with less than its demand.
C5_Witness ==
    /\ Past("apply_monthly_banking_settlement")
    /\ \E a, b \in Range(sheets["banking_settlement"]) :
          /\ a.Surplus_Demand > 0
          /\ a.Settlement_with_Banking = a.Surplus_Demand * BankScale
          /\ 0 < b.Settlement_with_Banking
          /\ b.Settlement_with_Banking < b.Surplus_Demand * BankScale

\* The pool a site met: the initial pool for the first site of the order,
\* else the pool recorded after the site before it
PoolBefore(rows, o, i, pool0) ==
    IF i = 1 THEN pool0 ELSE rows[o[i - 1]].Surplus_Generation_After_Banking

\* The banking example of section 8 as an input
IsBankExample ==
    /\ Col(sheets["monthly"], "Surplus_Demand") = <<50, 50>>
    /\ SumSeq(Col(sheets["monthly"], "Surplus_Generation")) = 100
    /\ IsBankPriority(sheets["monthly"][1].Unit)
    /\ ~IsBankPriority(sheets["monthly"][2].Unit)

\* C6: the banking step rule.  The sites of a month can be put in an order
\* in which each site, with demand d, met the pool p the site before it
\* left (the month's total surplus generation for the first) and: if
\* p >= 1.08 d it is settled in full and leaves p - 1.08 d; else if p > 0 its
\* settlement is 0.92 p and it leaves 0; else its settlement is 0 and it
\* leaves p.  Pool 100 with demands 50 and 50 gives settlement 50 and pool
\* 46, then settlement 42.32 and pool 0.
C6_BankingStepRule ==
    Past("apply_monthly_banking_settlement") =>
        /\ \A m \in Range(MonthOrder) :
              LET rows == BankRows(m)
              IN \E o \in Perms(DOMAIN rows) :
                    \A i \in DOMAIN o :
                        LET p == PoolBefore(rows, o, i, InitialPool(m))
                            d == rows[o[i]].Surplus_Demand * BankScale
                            r == rows[o[i]]
                        IN IF 100 * p >= 108 * d
                           THEN /\ r.Settlement_with_Banking = d
                                /\ 100 * r.Surplus_Generation_After_Banking = 100 * p - 108 * d
                           ELSE IF p > 0
                           THEN /\ 100 * r.Settlement_with_Banking = 92 * p
                                /\ r.Surplus_Generation_After_Banking = 0
                           ELSE /\ r.Settlement_with_Banking = 0
                                /\ r.Surplus_Generation_After_Banking = p
        /\ IsBankExample =>
              /\ Col(sheets["banking_settlement"], "Settlement_with_Banking")
                    = <<50 * BankScale, 423200>>
              /\ Col(sheets["banking_settlement"], "Surplus_Generation_After_Banking")
                    = <<46 * BankScale, 0>>

\* C6 witness: the banking example has been processed.
C6_Witness ==
    /\ Past("apply_monthly_banking_settlement")
    /\ IsBankExample
    /\ Len(sheets["banking_settlement"]) = 2


(***************************************************************************)
(* Settlement stages before banking: calculate_matched_settlement,         *)
(* add_unit_id and monthly_aggregation.  A Date is a day number counted    *)
(* from 2025-07-31, so 1..31 are the days of August 2025 and the days      *)
(* after them are in September.                                            *)
(***************************************************************************)
\* df[['Generation_value', 'Consumption_value']].min(axis=1) of one row
RowMin(r) == Min(r.Generation_value, r.Consumption_value)

WithMatched(r) ==
    [Date |-> r.Date, Time |-> r.Time, Unit |-> r.Unit, ToD_Slot |-> r.ToD_Slot,
     Consumption_value |-> r.Consumption_value, Generation_value |-> r.Generation_value,
     Surplus_Generation |-> r.Surplus_Generation, Surplus_Demand |-> r.Surplus_Demand,
     Matched_Settlement |-> RowMin(r)]

\* The sheet matched_settlement
CalculateMatchedSettlement(df) == [i \in DOMAIN df |-> WithMatched(df[i])]

\* Step "Calculating Matched Settlement"
CalculateMatchedSettlementStep ==
    /\ pc = "calculate_matched_settlement"
    /\ sheets' = WriteSheet(sheets, "matched_settlement",
                            CalculateMatchedSettlement(sheets["15 mins"]))
    /\ pc' = StepAfter(pc)

\* The name in upper case, without a code
map_unit_upper(u) == StringOf(UpperText(Text[u]))

\* map_unit: a name that already holds "(" and ")" is kept, any other
\* becomes "NAME (CODE)", with an empty code for a name not in unit_map
map_unit(u) ==
    LET u_upper == UpperText(Text[u])
    IN IF (\E i \in DOMAIN u_upper : u_upper[i] = "(")
          /\ (\E i \in DOMAIN u_upper : u_upper[i] = ")")
       THEN u
       ELSE StringOf(u_upper \o <<" ", "(">>
                     \o (IF StringOf(u_upper) \in DOMAIN unit_map
                         THEN Text[unit_map[StringOf(u_upper)]] ELSE <<>>)
                     \o <<")">>)

\* A site name that is not in unit_map
UnlistedName == "Annexe 1/2"

\* map_unit of every string of the model that is a site name or a key
MapUnitOf == [u \in Range(UnitNames) \cup Range(UnitKeys) \cup {UnlistedName} |-> map_unit(u)]

\* The Location branch: f"{u} ({unit_map.get(u, '')})" of Location.str.upper()
location_key(u) ==
    LET u_upper == UpperText(Text[u])
    IN StringOf(u_upper \o <<" ", "(">>
                \o (IF StringOf(u_upper) \in DOMAIN unit_map
                    THEN Text[unit_map[StringOf(u_upper)]] ELSE <<>>)
                \o <<")">>)

LocationKeyOf == [u \in Range(UnitNames) \cup {UnlistedName} |-> location_key(u)]

\* "Location" in df.columns
HasLocation(df) == df # <<>> /\ "Location" \in DOMAIN df[1]

\* "Unit" in df.columns; a sheet without rows has the header the stage
\* before wrote, which has Unit
HasUnit(df) == df = <<>> \/ "Unit" \in DOMAIN df[1]

\* The sheet matched_settlement_with_id
AddUnitId(df) ==
    IF HasLocation(df)
    THEN [i \in DOMAIN df |->
            [f \in DOMAIN df[i] \cup {"Unit"} |->
                IF f = "Unit" THEN LocationKeyOf[df[i].Location] ELSE df[i][f]]]
    ELSE [i \in DOMAIN df |-> [df[i] EXCEPT !.Unit = MapUnitOf[@]]]

\* Step "Adding Unit ID"; with neither column the KeyError is raised before
\* the writer is opened
AddUnitIdStep ==
    /\ pc = "add_unit_id"
    /\ IF HasLocation(sheets["matched_settlement"]) \/ HasUnit(sheets["matched_settlement"])
       THEN /\ sheets' = WriteSheet(sheets, "matched_settlement_with_id",
                                    AddUnitId(sheets["matched_settlement"]))
            /\ pc' = StepAfter(pc)
       ELSE /\ UNCHANGED sheets
            /\ pc' = "stopped"

DaysInAugust == 31

\* Date.dt.to_period("M").astype(str)
MonthOf(date) == IF date <= DaysInAugust THEN MonthOrder[1] ELSE MonthOrder[2]

\* The rows of one (Month, Unit) group
GroupRows(df, month, unit) ==
    LET InGroup(r) == MonthOf(r.Date) = month /\ r.Unit = unit
    IN SelectSeq(df, InGroup)

\* "Matched_Settlement": "sum" with the minimum of the sums in its place
MatchedOfSums(rows) ==
    Min(SumSeq(Col(rows, "Generation_value")), SumSeq(Col(rows, "Consumption_value")))

\* "Matched_Settlement": "sum"
MatchedSum(rows) == SumSeq(Col(rows, "Matched_Settlement"))

\* The aggregate of one group: the sum of each value column
AggRow(month, unit, rows) ==
    MonthlyRow(month, unit,
               SumSeq(Col(rows, "Consumption_value")), SumSeq(Col(rows, "Generation_value")),
               SumSeq(Col(rows, "Surplus_Generation")), SumSeq(Col(rows, "Surplus_Demand")),
               MatchedSum(rows))

\* groupby(["Month", "Unit"]): one row per group that has rows, in sorted
\* key order, from the group (m, u) on
RECURSIVE MonthlyGroups(_, _, _)
MonthlyGroups(df, m, u) ==
    IF m > Len(MonthOrder) THEN <<>>
    ELSE IF u > Len(KeyOrder) THEN MonthlyGroups(df, m + 1, 1)
    ELSE LET rows == GroupRows(df, MonthOrder[m], KeyOrder[u])
         IN (IF rows = <<>> THEN <<>> ELSE <<AggRow(MonthOrder[m], KeyOrder[u], rows)>>)
            \o MonthlyGroups(df, m, u + 1)

\* The sheet monthly
MonthlyAggregation(df) == MonthlyGroups(df, 1, 1)

\* Step "Monthly Aggregation"
MonthlyAggregationStep ==
    /\ pc = "monthly_aggregation"
    /\ sheets' = WriteSheet(sheets, "monthly",
                            MonthlyAggregation(sheets["matched_settlement_with_id"]))
    /\ pc' = StepAfter(pc)

(***************************************************************************)
(* Specification SpecSettle: the settlement stages on a bounded "15 mins"  *)
(* sheet, as automate_settlement.main runs them on a workbook it is given: *)
(* the first site has a row in up to two slots of the last day of August   *)
(* and in one of the first day of September, the last site in one slot,    *)
(* each row with any generation and consumption up to MaxValue.            *)
(***************************************************************************)
MaxValue == 1

LastOfAugust == DaysInAugust

FirstOfSeptember == DaysInAugust + 1

SettleRow(date, time, unit, v) ==
    [Date |-> date, Time |-> time, Unit |-> unit, ToD_Slot |-> get_tod_slot(time \div 60),
     Consumption_value |-> v[2], Generation_value |-> v[1],
     Surplus_Generation |-> Max(v[1] - v[2], 0), Surplus_Demand |-> Max(v[2] - v[1], 0)]

\* A row's (generation, consumption), or the empty tuple for no row
RowValues == {<<>>} \cup ((0..MaxValue) \X (0..MaxValue))

SettleRows(date, time, unit, v) ==
    IF v = <<>> THEN <<>> ELSE <<SettleRow(date, time, unit, v)>>

InitSettle ==
    /\ pc = "calculate_matched_settlement"
    /\ \E a, b, c, d \in RowValues :
          sheets = [NoSheets EXCEPT !["15 mins"] =
                       SettleRows(LastOfAugust, SlotA, UnitNames[1], a)
                       \o SettleRows(LastOfAugust, SlotB, UnitNames[1], b)
                       \o SettleRows(FirstOfSeptember, SlotA, UnitNames[1], c)
                       \o SettleRows(LastOfAugust, SlotA, UnitNames[Len(UnitNames)], d)]

NextSettle ==
    \/ CalculateMatchedSettlementStep
    \/ AddUnitIdStep
    \/ MonthlyAggregationStep

SpecSettle == InitSettle /\ [][NextSettle]_vars

(***************************************************************************)
(* Claims about matched settlement (checked under SpecSettle).             *)
(***************************************************************************)
\* The rows of the "15 mins" sheet that belong to a row of the monthly sheet
InputRowsOf(mrow) ==
    LET Belongs(r) == MonthOf(r.Date) = mrow.Month /\ MapUnitOf[r.Unit] = mrow.Unit
    IN SelectSeq(sheets["15 mins"], Belongs)

\* C7: matched settlement is min(Generation_value, Consumption_value) of
\* each 15-minute row, and the Matched_Settlement of a (month, site) row of
\* the monthly sheet is the sum of those minima over the site's rows of the
\* month.
C7_MatchedIsSumOfRowMinima ==
    /\ Past("calculate_matched_settlement") =>
          /\ Len(sheets["matched_settlement"]) = Len(sheets["15 mins"])
          /\ \A i \in DOMAIN sheets["15 mins"] :
                LET g == sheets["15 mins"][i].Generation_value
                    c == sheets["15 mins"][i].Consumption_value
                IN sheets["matched_settlement"][i].Matched_Settlement
                      = (IF g <= c THEN g ELSE c)
    /\ Past("monthly_aggregation") =>
          \A mrow \in Range(sheets["monthly"]) :
              LET rows == InputRowsOf(mrow)
              IN mrow.Matched_Settlement =
                    SumSeq([i \in DOMAIN rows |->
                              IF rows[i].Generation_value <= rows[i].Consumption_value
                              THEN rows[i].Generation_value
                              ELSE rows[i].Consumption_value])

\* C7 witness: a (month, site) whose sum of minima is less than the minimum
\* of its monthly sums.
C7_Witness ==
    /\ Past("monthly_aggregation")
    /\ \E mrow \in Range(sheets["monthly"]) :
          /\ Len(InputRowsOf(mrow)) = 2
          /\ mrow.Matched_Settlement < mrow.Generation_value
          /\ mrow.Matched_Settlement < mrow.Consumption_value


(***************************************************************************)
(* Consumption stages: add_tod_slot, merge_hourly_to_tod,                  *)
(* split_hourly_to_15min and merge_hourly_to_daily.  A timestamp is a Date *)
(* and a Time in minutes after midnight.  Consumption values are integers; *)
(* the hourly values the specifications draw are multiples of 4, for which *)
(* the division by 4 is exact as it is in binary floating point.           *)
(***************************************************************************)
MinutesPerHour == 60

MinutesPerDay == 24 * MinutesPerHour

\* The elements of a finite set of integers in ascending order
RECURSIVE Ascending(_)
Ascending(S) ==
    IF S = {} THEN <<>>
    ELSE LET least == CHOOSE x \in S : \A y \in S : x <= y
         IN <<least>> \o Ascending(S \ {least})

\* Site names and ToD slot names in the sorted order of groupby
NameOrder == <<"Bellandur", "Malleswaram", "Sahakar Nagar", "Whitefield">>

TodOrder == <<"Day Normal", "Evening Peak", "Morning Peak", "Night Off Peak">>

NameRank(unit) == CHOOSE k \in DOMAIN NameOrder : NameOrder[k] = unit

TodRank(slot) == CHOOSE k \in DOMAIN TodOrder : TodOrder[k] = slot

\* One row of the sheet hourly1
WithTodSlot(r) ==
    [Date |-> r.Date, Time |-> r.Time, Consumption |-> r.Consumption, Unit |-> r.Unit,
     Hour |-> r.Time \div MinutesPerHour,
     ToD_Slot |-> get_tod_slot(r.Time \div MinutesPerHour)]

\* The sheet hourly1
AddTodSlot(df) == [i \in DOMAIN df |-> WithTodSlot(df[i])]

\* Step "Adding ToD slot"
AddTodSlotStep ==
    /\ pc = "add_tod_slot"
    /\ sheets' = WriteSheet(sheets, "hourly1", AddTodSlot(sheets["hourly"]))
    /\ pc' = StepAfter(pc)

\* row["Consumption"] / 4 with the division left out
consumption_per_hour(consumption) == consumption

\* consumption_per_15min = row["Consumption"] / 4
consumption_per_15min(consumption) == consumption \div 4

\* The row appended for range(4)'s i: new_time = base_time + 15 i minutes
ExpandedRow(row, i) ==
    LET new_time == row.Time + 15 * i
    IN [Date |-> row.Date + new_time \div MinutesPerDay,
        Time |-> new_time % MinutesPerDay,
        Consumption |-> consumption_per_15min(row.Consumption),
        Unit |-> row.Unit, ToD_Slot |-> row.ToD_Slot]

\* expanded_rows: four rows for each row of df, in the order of df
SplitHourlyTo15min(df) ==
    [n \in 1..(4 * Len(df)) |-> ExpandedRow(df[(n - 1) \div 4 + 1], (n - 1) % 4)]

\* Step "Splitting hourly to 15min"
SplitHourlyTo15minStep ==
    /\ pc = "split_hourly_to_15min"
    /\ sheets' = WriteSheet(sheets, "15_mins", SplitHourlyTo15min(sheets["hourly1"]))
    /\ pc' = StepAfter(pc)

\* groupby(["Date", "Unit"]): the key of a row as one integer
DailyKey(r) == r.Date * Len(NameOrder) + NameRank(r.Unit) - 1

\* One row of the sheet daily: the sum of the group's Consumption
DailyRow(df, key) ==
    LET InGroup(r) == DailyKey(r) = key
        rows == SelectSeq(df, InGroup)
    IN [Date |-> rows[1].Date, Unit |-> rows[1].Unit,
        Consumption |-> SumSeq(Col(rows, "Consumption"))]

\* The sheet daily
MergeHourlyToDaily(df) ==
    LET keys == Ascending({DailyKey(r) : r \in Range(df)})
    IN [k \in DOMAIN keys |-> DailyRow(df, keys[k])]

\* Step "Merging hourly to daily"
MergeHourlyToDailyStep ==
    /\ pc = "merge_hourly_to_daily"
    /\ sheets' = WriteSheet(sheets, "daily", MergeHourlyToDaily(sheets["hourly"]))
    /\ pc' = StepAfter(pc)

\* get_time_range of merge_hourly_to_tod
get_time_range(tod_slot) ==
    CASE tod_slot = "Night Off Peak" -> "22:00 - 06:00"
      [] tod_slot = "Morning Peak"   -> "06:00 - 09:00"
      [] tod_slot = "Day Normal"     -> "09:00 - 18:00"
      [] tod_slot = "Evening Peak"   -> "18:00 - 22:00"
      [] OTHER                       -> "None"

\* Hour.isin([22, 23])
IsLateHour(hour) == hour \in {22, 23}

\* The rows of hours 22 and 23 moved to the next day and put after the
\* others; then those of them on the last date moved to the first date
ShiftLateHours(df) ==
    LET tagged == [i \in DOMAIN df |->
                     [Date |-> df[i].Date, Unit |-> df[i].Unit,
                      Consumption |-> df[i].Consumption,
                      Hour |-> df[i].Time \div MinutesPerHour,
                      ToD_Slot |-> get_tod_slot_merge(df[i].Time \div MinutesPerHour)]]
        Late(r)  == IsLateHour(r.Hour)
        Early(r) == ~IsLateHour(r.Hour)
        late     == SelectSeq(tagged, Late)
        df_shift == [i \in DOMAIN late |-> [late[i] EXCEPT !.Date = @ + 1]]
        all      == SelectSeq(tagged, Early) \o df_shift
        dates    == {r.Date : r \in Range(all)}
        first_date == CHOOSE d \in dates : \A e \in dates : d <= e
        last_date  == CHOOSE d \in dates : \A e \in dates : d >= e
    IN [i \in DOMAIN all |->
          IF all[i].Date = last_date /\ IsLateHour(all[i].Hour)
          THEN [all[i] EXCEPT !.Date = first_date]
          ELSE all[i]]

\* groupby(["Date", "Unit", "ToD_Slot"]): the key of a row as one integer
TodKey(r) == (r.Date * Len(NameOrder) + NameRank(r.Unit) - 1) * Len(TodOrder)
                + TodRank(r.ToD_Slot) - 1

\* A row that keeps the first reading of its group only
TodRowFirst(df, key) ==
    LET InGroup(r) == TodKey(r) = key
        rows == SelectSeq(df, InGroup)
    IN [Date |-> rows[1].Date, Unit |-> rows[1].Unit, ToD_Slot |-> rows[1].ToD_Slot,
        Time |-> get_time_range(rows[1].ToD_Slot),
        Value |-> rows[1].Consumption]

\* One row of the sheet ToD
TodRow(df, key) ==
    LET InGroup(r) == TodKey(r) = key
        rows == SelectSeq(df, InGroup)
    IN [Date |-> rows[1].Date, Unit |-> rows[1].Unit, ToD_Slot |-> rows[1].ToD_Slot,
        Time |-> get_time_range(rows[1].ToD_Slot),
        Value |-> SumSeq(Col(rows, "Consumption"))]

\* The sheet ToD
MergeHourlyToTod(df) ==
    LET shifted == ShiftLateHours(df)
        keys    == Ascending({TodKey(r) : r \in Range(shifted)})
    IN [k \in DOMAIN keys |-> TodRow(shifted, keys[k])]

\* Step "Merging hourly to ToD"
MergeHourlyToTodStep ==
    /\ pc = "merge_hourly_to_tod"
    /\ sheets' = WriteSheet(sheets, "ToD", MergeHourlyToTod(sheets["hourly"]))
    /\ pc' = StepAfter(pc)

(***************************************************************************)
(* Generation stages: the uploaded generation file, aggregate_15min and    *)
(* split_date_time.                                                        *)
(***************************************************************************)
MinutesPerSlot == 15

SlotsPerDay == MinutesPerDay \div MinutesPerSlot

\* The 15-minute bin of a timestamp, counted from the start of day 0
BinOf(date, time) == date * SlotsPerDay + time \div MinutesPerSlot

\* resample('15T').sum(): one record for every bin from the first that
\* holds a record to the last, with the sum of the bin's records (0 for a
\* bin that holds none)
Aggregate15min(df) ==
    LET bins  == {BinOf(r.Date, r.Time) : r \in Range(df)}
        first == CHOOSE b \in bins : \A c \in bins : b <= c
        last  == CHOOSE b \in bins : \A c \in bins : b >= c
    IN [k \in 1..(last - first + 1) |->
          LET InBin(r) == BinOf(r.Date, r.Time) = first + k - 1
          IN [Bin |-> first + k - 1,
              DayGen |-> SumSeq(Col(SelectSeq(df, InBin), "DayGen"))]]

\* Step "Aggregating to 15min"; validate_nonempty holds as the file has
\* records
Aggregate15minStep ==
    /\ pc = "aggregate_15min"
    /\ sheets["generation"] # <<>>
    /\ sheets' = WriteSheet(sheets, "15min_Data", Aggregate15min(sheets["generation"]))
    /\ pc' = StepAfter(pc)

\* Date = DateTime.dt.date, Time = DateTime.dt.time
SplitDateTime(df) ==
    [i \in DOMAIN df |->
       GenRow(df[i].Bin \div SlotsPerDay, (df[i].Bin % SlotsPerDay) * MinutesPerSlot,
              df[i].DayGen)]

\* Step "Splitting Date and Time"
SplitDateTimeStep ==
    /\ pc = "split_date_time"
    /\ sheets' = WriteSheet(sheets, "gen_15_mins", SplitDateTime(sheets["15min_Data"]))
    /\ pc' = StepAfter(pc)

(***************************************************************************)
(* aggregate_hourly: the merged 15-minute sheet summed per hour.           *)
(***************************************************************************)
HoursPerDay == 24

\* groupby(["Date", "Time", "Unit", "ToD_Slot"]) with Time floored to the
\* hour: the key of a row as one integer
HourlyKey(r) ==
    ((r.Date * HoursPerDay + r.Time \div MinutesPerHour) * Len(NameOrder)
        + NameRank(r.Unit) - 1) * Len(TodOrder) + TodRank(r.ToD_Slot) - 1

\* One row of the hourly file: the sums of the group, the surplus
\* generation added to Generation_value and the two surplus columns dropped
HourlyRow(df, key) ==
    LET InGroup(r) == HourlyKey(r) = key
        rows == SelectSeq(df, InGroup)
    IN [Date |-> rows[1].Date,
        Time |-> (rows[1].Time \div MinutesPerHour) * MinutesPerHour,
        Unit |-> rows[1].Unit, ToD_Slot |-> rows[1].ToD_Slot,
        Consumption_value |-> SumSeq(Col(rows, "Consumption_value")),
        Generation_value |-> SumSeq(Col(rows, "Generation_value"))
                                + SumSeq(Col(rows, "Surplus_Generation"))]

\* hourly_df
AggregateHourly(df) ==
    LET keys == Ascending({HourlyKey(r) : r \in Range(df)})
    IN [k \in DOMAIN keys |-> HourlyRow(df, keys[k])]

\* Step "Aggregating to hourly"; validate_nonempty holds as the merged
\* sheet has rows
AggregateHourlyStep ==
    /\ pc = "aggregate_hourly"
    /\ AggregateHourly(sheets["15 mins"]) # <<>>
    /\ sheets' = WriteSheet(sheets, "hourly_merged", AggregateHourly(sheets["15 mins"]))
    /\ pc' = StepAfter(pc)

(***************************************************************************)
(* calculate_savings_comparison.  Rates are in hundredths of a currency    *)
(* unit per kWh and energy in 1/BankScale kWh, so costs and savings are in *)
(* 1/(100 BankScale) of a currency unit.  A percentage is a pair: <<"num", *)
(* p>> for p hundredths of a percent, <<"nan", 0>> for NaN and <<"inf",    *)
(* s>> for an infinity of sign s.                                          *)
(***************************************************************************)
high_grid_rate_per_kwh == 720

low_grid_rate_per_kwh == 595

renewable_rate_per_kwh == 100

\* A list of plain site names
high_rate_names == {"MALLESWARAM", "HRBR UNIT", "OLD AIRPORT ROAD", "SAHAKAR NAGAR"}

high_rate_units == {"MALLESWARAM (C2HT-136)", "HRBR UNIT (E8HT-203)",
                    "OLD AIRPORT ROAD (E6HT209)", "SAHAKAR NAGAR (C8HT-111)"}

\* n / d rounded to an integer, halves to the even neighbour (d > 0)
RoundHalfEven(n, d) ==
    LET q == n \div d
        r == n % d
    IN IF 2 * r < d THEN q
       ELSE IF 2 * r > d THEN q + 1
       ELSE IF q % 2 = 0 THEN q ELSE q + 1

\* savings / grid_cost * 100 as a division that raises on a zero divisor
PctRaising(savings, grid_cost) ==
    IF grid_cost = 0 THEN <<"raise", 0>>
    ELSE <<"num", RoundHalfEven(savings, grid_cost \div BankScale)>>

\* (savings / grid_cost * 100).round(2) on float64 columns: 0/0 is NaN and
\* x/0 an infinity, neither raises.  A grid_cost is a multiple of BankScale
\* = 100 * 100, so savings * 100 * 100 / grid_cost, the percentage in
\* hundredths, is savings / (grid_cost / BankScale).
Pct(savings, grid_cost) ==
    IF grid_cost = 0
    THEN IF savings = 0 THEN <<"nan", 0>>
         ELSE <<"inf", IF savings > 0 THEN 1 ELSE -1>>
    ELSE <<"num", RoundHalfEven(savings, grid_cost \div BankScale)>>

\* One row of the sheet monthly_saving
SavingsRow(r) ==
    LET grid_rate == IF r.Unit \in high_rate_units
                     THEN high_grid_rate_per_kwh ELSE low_grid_rate_per_kwh
        cons      == r.Consumption_value * BankScale
        matched   == r.Matched_Settlement * BankScale
        grid_cost == cons * grid_rate
        with      == r.Settlement_with_Banking + matched
        cost_with == Max(cons - with, 0) * grid_rate + with * renewable_rate_per_kwh
        cost_without == Max(cons - matched, 0) * grid_rate
                           + matched * renewable_rate_per_kwh
    IN [Month |-> r.Month, Unit |-> r.Unit, Consumption_value |-> r.Consumption_value,
        grid_cost |-> grid_cost,
        actual_cost_with_banking |-> cost_with,
        savings_with_banking |-> grid_cost - cost_with,
        savings_pct_with_banking |-> Pct(grid_cost - cost_with, grid_cost),
        actual_cost_without_banking |-> cost_without,
        savings_without_banking |-> grid_cost - cost_without,
        savings_pct_without_banking |-> Pct(grid_cost - cost_without, grid_cost)]

\* The sheet monthly_saving
CalculateSavingsComparison(df) == [i \in DOMAIN df |-> SavingsRow(df[i])]

\* Step "Calculating Savings Comparison"
CalculateSavingsComparisonStep ==
    /\ pc = "calculate_savings_comparison"
    /\ sheets' = WriteSheet(sheets, "monthly_saving",
                            CalculateSavingsComparison(sheets["banking_settlement"]))
    /\ pc' = StepAfter(pc)

(***************************************************************************)
(* Specification SpecPipe: the processing steps from "Adding ToD slot" to  *)
(* the end on bounded inputs.  The consolidated hourly sheet holds one     *)
(* hour of one day, with a row of the first site, of the last site or of   *)
(* both, each a multiple of 4 up to 4 MaxHourly.  The generation file,     *)
(* which arrives at the step "Saving Generation file", holds up to three   *)
(* records within that hour, each up to MaxPipeGen; it has at least one,   *)
(* so that every stage's validation passes.                                *)
(***************************************************************************)
MaxHourly == 2

MaxPipeGen == 3

PipeDate == AllocDate

PipeHours == {9, 23}

PipeSites == <<UnitNames[1], UnitNames[Len(UnitNames)]>>

\* The minutes of the hour at which the generation file can hold a record
RecordMinutes == <<0, 20, 45>>

HourlyRow1(date, hour, unit, cons) ==
    [Date |-> date, Time |-> hour * MinutesPerHour, Consumption |-> cons, Unit |-> unit]

\* The sheet hourly: the rows of each site together, sites in sheet order
RECURSIVE PipeHourlySheet(_, _, _)
PipeHourlySheet(hour, cons, u) ==
    IF u > Len(PipeSites) THEN <<>>
    ELSE (IF cons[u] = Absent THEN <<>>
          ELSE <<HourlyRow1(PipeDate, hour, PipeSites[u], cons[u])>>)
         \o PipeHourlySheet(hour, cons, u + 1)

\* The generation file: its records in time order
RECURSIVE PipeGenFile(_, _, _)
PipeGenFile(hour, gen, k) ==
    IF k > Len(RecordMinutes) THEN <<>>
    ELSE (IF gen[k] = Absent THEN <<>>
          ELSE <<GenRow(PipeDate, hour * MinutesPerHour + RecordMinutes[k], gen[k])>>)
         \o PipeGenFile(hour, gen, k + 1)

InitPipe ==
    /\ pc = "add_tod_slot"
    /\ \E hour \in PipeHours :
          \E cons \in [DOMAIN PipeSites -> {Absent} \cup {4 * k : k \in 0..MaxHourly}] :
              /\ PipeHourlySheet(hour, cons, 1) # <<>>
              /\ sheets = [NoSheets EXCEPT !["hourly"] = PipeHourlySheet(hour, cons, 1)]

\* Step "Saving Generation file": the uploaded file is written to disk
SaveGenerationFileStep ==
    /\ pc = "save_generation_file"
    /\ \E gen \in [DOMAIN RecordMinutes -> {Absent} \cup 0..MaxPipeGen] :
          /\ PipeGenFile(0, gen, 1) # <<>>
          /\ sheets' = WriteSheet(sheets, "generation",
                          PipeGenFile(sheets["hourly"][1].Time \div MinutesPerHour, gen, 1))
    /\ pc' = StepAfter(pc)

NextPipe ==
    \/ AddTodSlotStep
    \/ MergeHourlyToTodStep
    \/ SplitHourlyTo15minStep
    \/ MergeHourlyToDailyStep
    \/ SaveGenerationFileStep
    \/ Aggregate15minStep
    \/ SplitDateTimeStep
    \/ MergeGenerationConsumptionStep
    \/ AggregateHourlyStep
    \/ CalculateMatchedSettlementStep
    \/ AddUnitIdStep
    \/ MonthlyAggregationStep
    \/ ApplyMonthlyBankingSettlementStep
    \/ CalculateSavingsComparisonStep

SpecPipe == InitPipe /\ [][NextPipe]_vars

(***************************************************************************)
(* Claims about the pipeline (checked under SpecPipe).                     *)
(***************************************************************************)
\* The row of the 15_mins sheet for the k-th quarter (k in 0..3) of the
\* i-th hourly row
Child(i, k) == sheets["15_mins"][4 * (i - 1) + k + 1]

\* C8: interval expansion.  split_hourly_to_15min turns every hourly row
\* into exactly four rows, 0, 15, 30 and 45 minutes after the parent's
\* timestamp, each with a quarter of the parent's consumption and the
\* parent's Unit and ToD_Slot; the four children's consumption sums to the
\* parent's.
C8_IntervalExpansion ==
    Past("split_hourly_to_15min") =>
        /\ Len(sheets["15_mins"]) = 4 * Len(sheets["hourly1"])
        /\ \A i \in DOMAIN sheets["hourly1"] :
              LET parent == sheets["hourly1"][i]
              IN /\ \A k \in 0..3 :
                       /\ Child(i, k).Date * MinutesPerDay + Child(i, k).Time
                             = parent.Date * MinutesPerDay + parent.Time + 15 * k
                       /\ 4 * Child(i, k).Consumption = parent.Consumption
                       /\ Child(i, k).Unit = parent.Unit
                       /\ Child(i, k).ToD_Slot = parent.ToD_Slot
                 /\ SumSeq([k \in 1..4 |-> Child(i, k - 1).Consumption])
                       = parent.Consumption

\* C8 witness: two hourly rows of different positive consumption have been
\* expanded.
C8_Witness ==
    /\ Past("split_hourly_to_15min")
    /\ Len(sheets["hourly1"]) = 2
    /\ sheets["hourly1"][1].Consumption > sheets["hourly1"][2].Consumption
    /\ sheets["hourly1"][2].Consumption > 0

\* The consumption of a site on a day in the re-aggregated hourly file
ReaggregatedDaily(date, unit) ==
    LET OfDay(r) == r.Date = date /\ r.Unit = unit
    IN SumSeq(Col(SelectSeq(sheets["hourly_merged"], OfDay), "Consumption_value"))

\* C9: aggregation is order-independent.  For every site and day, the
\* consumption of the hourly file aggregate_hourly writes from the merged
\* 15-minute sheet, summed over the day, equals the consumption of the
\* site's row of the sheet daily, the direct sum of the hourly input.
C9_ReaggregationEqualsDaily ==
    Past("aggregate_hourly") =>
        \A d \in Range(sheets["daily"]) :
            ReaggregatedDaily(d.Date, d.Unit) = d.Consumption

\* A percentage is the quotient of the two columns rounded to the nearest
\* hundredth
IsRoundedPct(pct, savings, grid_cost) ==
    /\ pct[1] = "num"
    /\ LET g    == grid_cost \div BankScale
           diff == pct[2] * g - savings
       IN 2 * (IF diff < 0 THEN -diff ELSE diff) <= g

\* C10: savings percentage with zero grid cost.  The stage completes on
\* every banking sheet; a row of monthly consumption 0 has grid cost 0 and
\* the sentinel NaN or 0 in both percentage columns, and every other row
\* has in each the rounded quotient of its savings and its grid cost.
C10_ZeroGridCostSentinel ==
    /\ pc = "calculate_savings_comparison" => ENABLED CalculateSavingsComparisonStep
    /\ Past("calculate_savings_comparison") =>
          /\ Len(sheets["monthly_saving"]) = Len(sheets["banking_settlement"])
          /\ \A i \in DOMAIN sheets["monthly_saving"] :
                LET r == sheets["monthly_saving"][i]
                IN IF sheets["banking_settlement"][i].Consumption_value = 0
                   THEN /\ r.grid_cost = 0
                        /\ r.savings_pct_with_banking \in {<<"nan", 0>>, <<"num", 0>>}
                        /\ r.savings_pct_without_banking \in {<<"nan", 0>>, <<"num", 0>>}
                   ELSE /\ IsRoundedPct(r.savings_pct_with_banking,
                                        r.savings_with_banking, r.grid_cost)
                        /\ IsRoundedPct(r.savings_pct_without_banking,
                                        r.savings_without_banking, r.grid_cost)

\* C10 witness: a savings sheet with a row of consumption 0 and a row whose
\* savings with banking exceed those without.
C10_Witness ==
    /\ Past("calculate_savings_comparison")
    /\ \E a, b \in Range(sheets["monthly_saving"]) :
          /\ a.Consumption_value = 0
          /\ a.savings_pct_with_banking = <<"nan", 0>>
          /\ b.Consumption_value > 0
          /\ b.savings_pct_with_banking[2] > b.savings_pct_without_banking[2]
          /\ b.savings_pct_without_banking[2] > 0

InvalidTitleChars == {"\\", "*", "?", ":", "/", "[", "]"}

\* wks.title = sheet_name succeeds
IsValidTitle(unit) == \A i \in DOMAIN Text[unit] : Text[unit][i] \notin InvalidTitleChars

\* zero_slots: 2025-08-07 18:00:02, 19:00:02 and 20:00:02
zero_slots == { [Date |-> 7, Time |-> h * MinutesPerHour, Second |-> 2] : h \in {18, 19, 20} }

\* split_monthly_to_hourly: the percentages normalised to their sum, times
\* the site's total
split_monthly_to_hourly(total_value, hourly_percentages) ==
    [i \in DOMAIN hourly_percentages |->
        (hourly_percentages[i] * total_value) \div SumSeq(hourly_percentages)]

\* unit_df of one site: the HRBR site has 0 in the zero slots
UnitDf(df, unit, total_value) ==
    LET hourly_values == split_monthly_to_hourly(total_value, Col(df, "Pct"))
        IsHrbr        == LowerOf[unit] = <<"h","r","b","r"," ","u","n","i","t">>
    IN [i \in DOMAIN df |->
          [Date |-> df[i].Date, Time |-> df[i].Time, Second |-> df[i].Second,
           Consumption |->
              IF IsHrbr /\ [Date |-> df[i].Date, Time |-> df[i].Time,
                            Second |-> df[i].Second] \in zero_slots
              THEN 0 ELSE hourly_values[i]]]

\* The number of leading entries of unit_values whose sheet is written
\* before to_excel raises, from entry n on
RECURSIVE WrittenBeforeRaise(_, _)
WrittenBeforeRaise(unit_values, n) ==
    IF n > Len(unit_values) \/ ~IsValidTitle(unit_values[n].Unit) THEN n - 1
    ELSE WrittenBeforeRaise(unit_values, n + 1)

\* The book of the writer after the loop over unit_values: a sheet per
\* site written, and after a rejected title the untitled sheet that was
\* created for it
WriterBook(df, unit_values) ==
    LET k == WrittenBeforeRaise(unit_values, 1)
    IN [i \in 1..k |-> [Title |-> unit_values[i].Unit,
                        Rows  |-> UnitDf(df, unit_values[i].Unit, unit_values[i].Total)]]
       \o (IF k < Len(unit_values) THEN <<[Title |-> "Sheet", Rows |-> <<>>]>> ELSE <<>>)

\* validate_no_nans(df, ["Consumption_%"]) passes
NoNanPercentages(df) == \A i \in DOMAIN df : df[i].Pct # Absent

\* Step "Splitting units to hourly".  A failed validation raises before the
\* writer is opened.  ExcelWriter's __exit__ saves the book, also when the
\* body of the with statement has raised.
SplitUnitsToHourlyStep ==
    /\ pc = "split_units_to_hourly"
    /\ LET df          == sheets["With_Percentages"]
           unit_values == sheets["unit_values"]
       IN IF ~NoNanPercentages(df)
          THEN /\ UNCHANGED sheets
               /\ pc' = "stopped"
          ELSE /\ sheets' = WriteSheet(sheets, "hourly_units", WriterBook(df, unit_values))
               /\ pc' = IF WrittenBeforeRaise(unit_values, 1) < Len(unit_values)
                        THEN "stopped" ELSE StepAfter(pc)

\* The rows consolidate_units_hourly takes from one sheet: Unit is the
\* sheet name and Time the timestamp's hour as "%H:00:00"
ConsolidatedRows(sheet) ==
    [i \in DOMAIN sheet.Rows |->
        [Date |-> sheet.Rows[i].Date,
         Time |-> (sheet.Rows[i].Time \div MinutesPerHour) * MinutesPerHour,
         Consumption |-> sheet.Rows[i].Consumption,
         Unit |-> sheet.Title]]

\* merged_df: the rows of the sheets that have the columns Date and
\* Consumption, in workbook order, from sheet n on
RECURSIVE ConsolidateUnitsHourly(_, _)
ConsolidateUnitsHourly(book, n) ==
    IF n > Len(book) THEN <<>>
    ELSE (IF book[n].Rows # <<>> THEN ConsolidatedRows(book[n]) ELSE <<>>)
         \o ConsolidateUnitsHourly(book, n + 1)

\* Step "Consolidating units hourly"
ConsolidateUnitsHourlyStep ==
    /\ pc = "consolidate_units_hourly"
    /\ sheets' = WriteSheet(sheets, "hourly",
                            ConsolidateUnitsHourly(sheets["hourly_units"], 1))
    /\ pc' = StepAfter(pc)

(***************************************************************************)
(* Specification SpecSplit: split_units_to_hourly and                      *)
(* consolidate_units_hourly on bounded inputs.  With_Percentages has two   *)
(* rows, one of them in a zero slot, whose percentages sum to 100 or of    *)
(* which one is an empty cell.  unit_values has an entry for any non-empty *)
(* subset of four names, in this order, one of which is no valid sheet     *)
(* title, each with a total that is a multiple of 4 up to 4 MaxTotal.      *)
(***************************************************************************)
MaxTotal == 1

SplitNames == <<"Malleswaram", "HRBR Unit", "Annexe 1/2", "Whitefield">>

PercentagePairs == {<<25, 75>>, <<50, 50>>, <<100, 0>>, <<Absent, 100>>}

PercentageSheet(pair) ==
    <<[Date |-> 7, Time |-> 18 * MinutesPerHour, Second |-> 2, Pct |-> pair[1]],
      [Date |-> 7, Time |-> 21 * MinutesPerHour, Second |-> 2, Pct |-> pair[2]]>>

\* unit_values as the sequence of its items, from name n on
RECURSIVE UnitValues(_, _)
UnitValues(total, n) ==
    IF n > Len(SplitNames) THEN <<>>
    ELSE (IF total[n] = Absent THEN <<>>
          ELSE <<[Unit |-> SplitNames[n], Total |-> total[n]]>>)
         \o UnitValues(total, n + 1)

InitSplit ==
    /\ pc = "split_units_to_hourly"
    /\ \E pair \in PercentagePairs :
          \E total \in [DOMAIN SplitNames -> {Absent} \cup {4 * k : k \in 0..MaxTotal}] :
              /\ UnitValues(total, 1) # <<>>
              /\ sheets = [NoSheets EXCEPT !["With_Percentages"] = PercentageSheet(pair),
                                           !["unit_values"] = UnitValues(total, 1)]

NextSplit ==
    \/ SplitUnitsToHourlyStep
    \/ ConsolidateUnitsHourlyStep

SpecSplit == InitSplit /\ [][NextSplit]_vars

(***************************************************************************)
(* Claims about stage atomicity (checked under SpecSplit).                 *)
(***************************************************************************)
\* The titles of the sheets of the workbook hourly_units
WrittenTitles == Col(sheets["hourly_units"], "Title")

\* C12: stage atomicity on error.  split_units_to_hourly either writes the
\* sheets of all the sites of unit_values or leaves no output workbook: a
\* failed validation leaves none, and so does a failure while the per-site
\* sheets are written.
C12_StageAtomicity ==
    \/ sheets["hourly_units"] = <<>>
    \/ /\ pc # "stopped"
       /\ WrittenTitles = Col(sheets["unit_values"], "Unit")

(***************************************************************************)
(* Specification SpecKeyed: merge_generation_consumption on a consumption  *)
(* sheet whose sites are named by a composite key, by a plain priority     *)
(* name or by a plain other name, as a workbook given to                   *)
(* automate_generation_data.main can name them; one slot, any generation   *)
(* up to MaxGen and any consumption up to MaxCons.                         *)
(***************************************************************************)
KeyedUnits == <<UnitKeys[1], UnitNames[3], UnitNames[4]>>

RECURSIVE KeyedConsSheet(_, _)
KeyedConsSheet(cons, u) ==
    IF u > Len(KeyedUnits) THEN <<>>
    ELSE (IF cons[u] = Absent THEN <<>>
          ELSE <<ConsRow(AllocDate, SlotA, KeyedUnits[u], cons[u])>>)
         \o KeyedConsSheet(cons, u + 1)

InitKeyed ==
    /\ pc = "merge_generation_consumption"
    /\ \E g \in 0..MaxGen :
          \E cons \in [DOMAIN KeyedUnits -> {Absent} \cup 0..MaxCons] :
              /\ KeyedConsSheet(cons, 1) # <<>>
              /\ sheets = [NoSheets EXCEPT !["gen_15_mins"] = AllocGenSheet(g, Absent),
                                           !["15_mins"] = KeyedConsSheet(cons, 1)]

NextKeyed == MergeGenerationConsumptionStep

SpecKeyed == InitKeyed /\ [][NextKeyed]_vars

(***************************************************************************)
(* Claims about priority membership (checked under SpecKeyed).             *)
(***************************************************************************)
\* C13: priority membership by substring.  The Allocation Engine treats a
\* site as a priority site exactly if its key contains a priority name
\* (case-insensitive), as the Banking Settlement Engine does; so in no slot
\* is a site whose key contains a priority name left short of generation
\* while a site whose key contains none receives some.
C13_PriorityBySubstring ==
    /\ \A r \in Range(sheets["15_mins"]) : IsPriorityUnit(r.Unit) <=> IsBankPriority(r.Unit)
    /\ Past("merge_generation_consumption") =>
          \A a, b \in Range(sheets["15 mins"]) :
              /\ a.Date = b.Date /\ a.Time = b.Time
              /\ IsBankPriority(a.Unit) /\ ~IsBankPriority(b.Unit)
              => ~(a.Generation_value < a.Consumption_value /\ b.Generation_value > 0)

(***************************************************************************)
(* Claims about the residual surplus (checked under SpecAlloc).            *)
(***************************************************************************)
\* Row p of the slot's output can be the last one visited in allocation
\* order: every other row is visited before it
CanBeVisitedLast(rows, p) ==
    \A q \in DOMAIN rows \ {p} :
        \/ PriorityRank(rows[q].Unit) > 0 /\ PriorityRank(rows[p].Unit) = 0
        \/ /\ PriorityRank(rows[q].Unit) > 0 /\ PriorityRank(rows[p].Unit) > 0
           /\ PriorityRank(rows[q].Unit) < PriorityRank(rows[p].Unit)
        \/ /\ PriorityRank(rows[q].Unit) = 0 /\ PriorityRank(rows[p].Unit) = 0
           /\ rows[q].Consumption_value >= rows[p].Consumption_value

\* C14: residual surplus.  In a slot whose generation exceeds the total
\* consumption of its sites, the whole residual is recorded as
\* Surplus_Generation on the site visited last in allocation order
\* (priority sites in list order, then the others by descending
\* consumption) and every other row of the slot has Surplus_Generation 0;
\* a slot with a single site gives that site the residual.
C14_ResidualOnLastProcessed ==
    Past("merge_generation_consumption") =>
        \A slot \in GenSlots(sheets["gen_15_mins"]) :
            LET rows     == OutRows(slot)
                G        == SlotGeneration(sheets["gen_15_mins"], slot)
                residual == G - SumSeq(Col(rows, "Consumption_value"))
            IN (rows # <<>> /\ residual > 0) =>
                  \E p \in DOMAIN rows :
                      /\ CanBeVisitedLast(rows, p)
                      /\ rows[p].Surplus_Generation = residual
                      /\ \A q \in DOMAIN rows \ {p} : rows[q].Surplus_Generation = 0

(***************************************************************************)
(* Claims about the banking order and the after-banking fields (checked    *)
(* under SpecBank).                                                        *)
(***************************************************************************)
\* The key contains some priority name, whatever the case of the letters
ContainsPriorityName(u) == \E k \in DOMAIN priority_units : ContainsName(u, priority_units[k])

\* Position in the list of the first priority name the key contains
FirstContained(u) ==
    CHOOSE k \in DOMAIN priority_units :
        /\ ContainsName(u, priority_units[k])
        /\ \A j \in 1..(k - 1) : ~ContainsName(u, priority_units[j])

\* o orders the month's rows as banking is said to process them
IsBankingOrder(rows, o) ==
    \A i, j \in DOMAIN o :
        i < j =>
            LET a == rows[o[i]]
                b == rows[o[j]]
            IN \/ ContainsPriorityName(a.Unit) /\ ~ContainsPriorityName(b.Unit)
               \/ /\ ContainsPriorityName(a.Unit) /\ ContainsPriorityName(b.Unit)
                  /\ FirstContained(a.Unit) <= FirstContained(b.Unit)
               \/ /\ ~ContainsPriorityName(a.Unit) /\ ~ContainsPriorityName(b.Unit)
                  /\ a.Surplus_Demand >= b.Surplus_Demand

\* What the rows before position i of the order have taken from the pool
DebitedBefore(rows, o, i, pool0) ==
    pool0 - (IF i = 1 THEN pool0 ELSE rows[o[i - 1]].Surplus_Generation_After_Banking)

\* C15: banking processing order.  Within a month the sites whose key
\* contains a priority name (case-insensitive) are processed before all the
\* others, in the list order of the first priority name their key contains,
\* and the others after them by descending Surplus_Demand: the month's rows
\* can be put in such an order in which every site's settlement is what the
\* pool left by the sites before it allows.
C15_BankingOrder ==
    Past("apply_monthly_banking_settlement") =>
        \A m \in Range(MonthOrder) :
            LET rows == BankRows(m)
            IN \E o \in Perms(DOMAIN rows) :
                  /\ IsBankingOrder(rows, o)
                  /\ \A i \in DOMAIN o :
                        LET p == InitialPool(m) - DebitedBefore(rows, o, i, InitialPool(m))
                            d == rows[o[i]].Surplus_Demand * BankScale
                        IN rows[o[i]].Settlement_with_Banking =
                              IF 100 * p >= 108 * d THEN d
                              ELSE IF p > 0 THEN (92 * p) \div 100 ELSE 0

\* C15 witness: a month in which the first priority site of the list is
\* settled in full, a later priority site in part, and of two other sites
\* with a deficit neither gets anything.
C15_Witness ==
    /\ Past("apply_monthly_banking_settlement")
    /\ \E a, b, c, d \in Range(sheets["banking_settlement"]) :
          /\ ContainsPriorityName(a.Unit) /\ ContainsPriorityName(b.Unit)
          /\ FirstContained(a.Unit) < FirstContained(b.Unit)
          /\ a.Surplus_Demand > 0
          /\ a.Settlement_with_Banking = a.Surplus_Demand * BankScale
          /\ 0 < b.Settlement_with_Banking
          /\ b.Settlement_with_Banking < b.Surplus_Demand * BankScale
          /\ ~ContainsPriorityName(c.Unit) /\ ~ContainsPriorityName(d.Unit)
          /\ c.Surplus_Demand > d.Surplus_Demand /\ d.Surplus_Demand > 0
          /\ c.Settlement_with_Banking = 0 /\ d.Settlement_with_Banking = 0

\* The pool after the first i sites of the order, worked out from the
\* month's total surplus generation and the settlements of those sites
RECURSIVE PoolAfter(_, _, _, _)
PoolAfter(rows, o, i, pool0) ==
    IF i = 0 THEN pool0
    ELSE LET p == PoolAfter(rows, o, i - 1, pool0)
             d == rows[o[i]].Surplus_Demand * BankScale
         IN IF 100 * p >= 108 * d /\ rows[o[i]].Settlement_with_Banking = d
            THEN p - (108 * d) \div 100
            ELSE IF p > 0 THEN 0 ELSE p

\* C16: after-banking fields.  On every row of the banking sheet
\* Surplus_Demand_After_Banking is max(Surplus_Demand -
\* Settlement_with_Banking, 0), so that the settlement and the remaining
\* deficit add up to Surplus_Demand; and in the order the month's sites were
\* processed, Surplus_Generation_After_Banking of a site is the pool right
\* after that site, never below 0.
C16_AfterBankingFields ==
    Past("apply_monthly_banking_settlement") =>
        /\ \A r \in Range(sheets["banking_settlement"]) :
              /\ r.Surplus_Demand_After_Banking =
                    Max(r.Surplus_Demand * BankScale - r.Settlement_with_Banking, 0)
              /\ r.Settlement_with_Banking + r.Surplus_Demand_After_Banking
                    = r.Surplus_Demand * BankScale
              /\ r.Surplus_Generation_After_Banking >= 0
        /\ \A m \in Range(MonthOrder) :
              LET rows == BankRows(m)
              IN \E o \in Perms(DOMAIN rows) :
                    /\ IsBankingOrder(rows, o)
                    /\ \A i \in DOMAIN o :
                          rows[o[i]].Surplus_Generation_After_Banking
                             = Max(PoolAfter(rows, o, i, InitialPool(m)), 0)

\* C16 witness: a month in which one site with a deficit is settled in full
\* and leaves a positive pool, and another is settled in part and keeps a
\* positive deficit.
C16_Witness ==
    /\ Past("apply_monthly_banking_settlement")
    /\ \E a, b \in Range(sheets["banking_settlement"]) :
          /\ a.Surplus_Demand > 0
          /\ a.Surplus_Demand_After_Banking = 0
          /\ a.Surplus_Generation_After_Banking > 0
          /\ b.Settlement_with_Banking > 0
          /\ b.Surplus_Demand_After_Banking > 0
          /\ b.Surplus_Generation_After_Banking = 0

(***************************************************************************)
(* Claims about the rows of the allocation output (checked under           *)
(* SpecAlloc).                                                             *)
(***************************************************************************)
\* The consumption rows of a slot, in sheet order
ConsRows(slot) ==
    LET InSlot(r) == r.Date = slot[1] /\ r.Time = slot[2]
    IN SelectSeq(sheets["15_mins"], InSlot)

\* The output rows of the slot are the slot's consumption rows, one for one
OneRowPerConsumptionRow(slot) ==
    /\ Len(OutRows(slot)) = Len(ConsRows(slot))
    /\ \A i \in DOMAIN ConsRows(slot) :
          /\ OutRows(slot)[i].Unit = ConsRows(slot)[i].Unit
          /\ OutRows(slot)[i].Consumption_value = ConsRows(slot)[i].Consumption

\* C17: pass-through of rows, as stated.  For every slot with a generation
\* record the output has exactly one row per consumption row of the slot,
\* none dropped and none duplicated, and a site with zero consumption has
\* Generation_value, Surplus_Generation and Surplus_Demand all 0.
C17_PassThrough ==
    Past("merge_generation_consumption") =>
        \A slot \in GenSlots(sheets["gen_15_mins"]) :
            /\ OneRowPerConsumptionRow(slot)
            /\ \A r \in Range(OutRows(slot)) :
                  r.Consumption_value = 0 =>
                      /\ r.Generation_value = 0
                      /\ r.Surplus_Generation = 0
                      /\ r.Surplus_Demand = 0

\* C17, amended.  For every slot with a generation record the output has
\* exactly one row per consumption row of the slot, none dropped and none
\* duplicated; a site with zero consumption has Generation_value 0 and
\* Surplus_Demand 0, and Surplus_Generation 0 unless it is the row that
\* carries the slot's residual generation.
C17_PassThroughAmended ==
    Past("merge_generation_consumption") =>
        \A slot \in GenSlots(sheets["gen_15_mins"]) :
            /\ OneRowPerConsumptionRow(slot)
            /\ \A i \in DOMAIN OutRows(slot) :
                  LET r == OutRows(slot)[i]
                      residual == SlotGeneration(sheets["gen_15_mins"], slot)
                                     - SumSeq(Col(ConsRows(slot), "Consumption"))
                  IN r.Consumption_value = 0 =>
                        /\ r.Generation_value = 0
                        /\ r.Surplus_Demand = 0
                        /\ r.Surplus_Generation \in {0, Max(residual, 0)}

\* C17 witness: a slot with generation to spare whose first row is a site
\* without consumption and whose last row is a site with consumption.
C17_Witness ==
    /\ Past("merge_generation_consumption")
    /\ \E slot \in GenSlots(sheets["gen_15_mins"]) :
          LET rows == OutRows(slot)
          IN /\ Len(rows) >= 3
             /\ rows[1].Consumption_value = 0
             /\ rows[2].Consumption_value > 0
             /\ rows[Len(rows)].Consumption_value = 0
             /\ rows[Len(rows)].Surplus_Generation > 0
             /\ rows[1].Surplus_Generation = 0

(***************************************************************************)
(* Specification SpecTod: add_tod_slot and merge_hourly_to_tod on an       *)
(* hourly sheet of two sites over the dates 1..MaxTodDate.  The first site *)
(* has, on each date, any of a reading in the day and a reading in the     *)
(* late evening; the second site has one reading, at any hour of any date. *)
(***************************************************************************)
MaxTodDate == 3

DayHour == 9

LateHour == 22

TodSites == <<UnitNames[1], UnitNames[4]>>

\* The first site's rows from date d on, in date and time order
RECURSIVE PatternSheet(_, _)
PatternSheet(pat, d) ==
    IF d > MaxTodDate THEN <<>>
    ELSE (IF DayHour \in pat[d] THEN <<HourlyRow1(d, DayHour, TodSites[1], 4)>> ELSE <<>>)
         \o (IF LateHour \in pat[d] THEN <<HourlyRow1(d, LateHour, TodSites[1], 8)>> ELSE <<>>)
         \o PatternSheet(pat, d + 1)

InitTod ==
    /\ pc = "add_tod_slot"
    /\ \E pat \in [1..MaxTodDate -> SUBSET {DayHour, LateHour}] :
          \E d \in 1..MaxTodDate, h \in 0..(HoursPerDay - 1) :
              sheets = [NoSheets EXCEPT !["hourly"] =
                          PatternSheet(pat, 1) \o <<HourlyRow1(d, h, TodSites[2], 4)>>]

NextTod ==
    \/ AddTodSlotStep
    \/ MergeHourlyToTodStep

SpecTod == InitTod /\ [][NextTod]_vars

(***************************************************************************)
(* Claims about the ToD classification and the day shift (checked under    *)
(* SpecTod).                                                               *)
(***************************************************************************)
TodSlots == {"Night Off Peak", "Morning Peak", "Day Normal", "Evening Peak"}

\* The slot of an hour by the boundaries 6, `morningEnd`, 18 and 22
SlotByBoundaries(hour, morningEnd) ==
    IF hour >= 22 \/ hour < 6 THEN "Night Off Peak"
    ELSE IF hour < morningEnd THEN "Morning Peak"
    ELSE IF hour < 18 THEN "Day Normal"
    ELSE "Evening Peak"

\* C18: ToD classification.  In both call sites every hour 0..23 maps to
\* one of the four slots; hours 22, 23 and 0..5 are Night Off Peak and
\* hours 18..21 Evening Peak in both; add_tod_slot uses [6,9)/[9,18) and
\* merge_hourly_to_tod [6,10)/[10,18), so the two differ at hour 9 only
\* (Day Normal against Morning Peak).  Every row of hourly1 carries the
\* slot of its hour by the first scheme, and the rows of ToD of a site are
\* of the slots the second scheme gives to the site's hours.
C18_TodPartition ==
    /\ \A h \in 0..(HoursPerDay - 1) :
          /\ get_tod_slot(h) \in TodSlots /\ get_tod_slot_merge(h) \in TodSlots
          /\ get_tod_slot(h) = SlotByBoundaries(h, 9)
          /\ get_tod_slot_merge(h) = SlotByBoundaries(h, 10)
          /\ (get_tod_slot(h) # get_tod_slot_merge(h)) <=> (h = 9)
    /\ get_tod_slot(9) = "Day Normal" /\ get_tod_slot_merge(9) = "Morning Peak"
    /\ \A r \in Range(sheets["hourly1"]) :
          r.ToD_Slot = SlotByBoundaries(r.Time \div MinutesPerHour, 9)
    /\ \A u \in Range(TodSites) :
          Past("merge_hourly_to_tod") =>
              {r.ToD_Slot : r \in {x \in Range(sheets["ToD"]) : x.Unit = u}}
                 = {SlotByBoundaries(x.Time \div MinutesPerHour, 10) :
                       x \in {y \in Range(sheets["hourly"]) : y.Unit = u}}

\* C18 witness: both stages have run on a sheet with a reading at hour 9,
\* which hourly1 has as Day Normal and ToD as Morning Peak.
C18_Witness ==
    /\ Past("merge_hourly_to_tod")
    /\ \E r \in Range(sheets["hourly1"]) :
          /\ r.Unit = TodSites[2] /\ r.Hour = 9 /\ r.ToD_Slot = "Day Normal"
          /\ \E t \in Range(sheets["ToD"]) :
                t.Unit = TodSites[2] /\ t.ToD_Slot = "Morning Peak"

\* The dates of the hourly sheet
HourlyDates == {r.Date : r \in Range(sheets["hourly"])}

FirstDate == CHOOSE d \in HourlyDates : \A e \in HourlyDates : d <= e

FinalDate == CHOOSE d \in HourlyDates : \A e \in HourlyDates : d >= e

\* The date a reading is said to be counted under
CountedUnder(r) ==
    IF r.Time \div MinutesPerHour \in {22, 23}
    THEN (IF r.Date = FinalDate THEN FirstDate ELSE r.Date + 1)
    ELSE r.Date

\* The consumption of the site's readings counted under the date in the slot
CountedValue(date, unit, slot) ==
    LET Counted(r) == /\ r.Unit = unit
                      /\ CountedUnder(r) = date
                      /\ get_tod_slot_merge(r.Time \div MinutesPerHour) = slot
    IN SumSeq(Col(SelectSeq(sheets["hourly"], Counted), "Consumption"))

\* C19: ToD day shift with circular wrap.  In the sheet ToD a reading of
\* hours 0..21 is counted under its own date, a reading of hours 22 or 23 of
\* date d under d+1, and a reading of hours 22 or 23 of the final date of
\* the dataset under the first date of the dataset; no other reading is
\* wrapped, also when the final date has no reading at 22 or 23.  So every
\* row of ToD holds the sum of the readings counted under its date, and
\* every reading is counted in some row.
C19_DayShiftWithWrap ==
    Past("merge_hourly_to_tod") =>
        /\ \A t \in Range(sheets["ToD"]) : t.Value = CountedValue(t.Date, t.Unit, t.ToD_Slot)
        /\ \A r \in Range(sheets["hourly"]) :
              \E t \in Range(sheets["ToD"]) :
                  /\ t.Date = CountedUnder(r) /\ t.Unit = r.Unit
                  /\ t.ToD_Slot = get_tod_slot_merge(r.Time \div MinutesPerHour)

(***************************************************************************)
(* Specification SpecHourly: merge_generation_consumption followed by      *)
(* aggregate_hourly, on the input sheets of SpecAlloc: two slots of one    *)
(* hour, of which the second may have a generation record and no           *)
(* consumption row.                                                        *)
(***************************************************************************)
InitHourly == InitAlloc

NextHourly ==
    \/ MergeGenerationConsumptionStep
    \/ AggregateHourlyStep

SpecHourly == InitHourly /\ [][NextHourly]_vars

(***************************************************************************)
(* Claims about aggregate_hourly (checked under SpecHourly).               *)
(***************************************************************************)
\* The 15-minute rows an hourly row stands for
QuarterRows(h) ==
    LET InHour(r) == /\ r.Date = h.Date /\ r.Unit = h.Unit /\ r.ToD_Slot = h.ToD_Slot
                     /\ r.Time \div MinutesPerHour = h.Time \div MinutesPerHour
    IN SelectSeq(sheets["15 mins"], InHour)

\* Every hourly row is the fold of its 15-minute rows, and every 15-minute
\* row is in some hourly row
FoldsSurplusIntoGeneration ==
    /\ \A h \in Range(sheets["hourly_merged"]) :
          /\ h.Generation_value = SumSeq(Col(QuarterRows(h), "Generation_value"))
                                     + SumSeq(Col(QuarterRows(h), "Surplus_Generation"))
          /\ h.Consumption_value = SumSeq(Col(QuarterRows(h), "Consumption_value"))
          /\ DOMAIN h = {"Date", "Time", "Unit", "ToD_Slot", "Consumption_value",
                         "Generation_value"}
    /\ \A r \in Range(sheets["15 mins"]) :
          \E h \in Range(sheets["hourly_merged"]) :
              \E i \in DOMAIN QuarterRows(h) : QuarterRows(h)[i] = r

\* The hours of the generation sheet, as pairs of date and hour
GenHours == {<<r.Date, r.Time \div MinutesPerHour>> : r \in Range(sheets["gen_15_mins"])}

\* The total input generation of an hour
InputGeneration(hr) ==
    LET InHour(r) == r.Date = hr[1] /\ r.Time \div MinutesPerHour = hr[2]
    IN SumSeq(Col(SelectSeq(sheets["gen_15_mins"], InHour), "DayGen"))

\* The hourly Generation_value summed over the sites of an hour
HourlyGeneration(hr) ==
    LET InHour(h) == h.Date = hr[1] /\ h.Time \div MinutesPerHour = hr[2]
    IN SumSeq(Col(SelectSeq(sheets["hourly_merged"], InHour), "Generation_value"))

\* C20: hourly re-aggregation.  For every (date, hour, site, ToD slot) the
\* hourly Generation_value is the sum of Generation_value plus the sum of
\* Surplus_Generation of the hour's 15-minute rows, the hourly
\* Consumption_value the sum of their consumption, and the surplus columns
\* are dropped; and the hourly Generation_value summed over the sites of an
\* hour equals the total input generation of that hour.
C20_HourlyFoldsSurplus ==
    Past("aggregate_hourly") =>
        /\ FoldsSurplusIntoGeneration
        /\ \A hr \in GenHours : HourlyGeneration(hr) = InputGeneration(hr)

(***************************************************************************)
(* Claims about calculate_savings_comparison (checked under SpecPipe).     *)
(***************************************************************************)
\* The rate a site is said to be charged
ChargedRate(unit) ==
    IF unit \in {"MALLESWARAM (C2HT-136)", "HRBR UNIT (E8HT-203)",
                 "OLD AIRPORT ROAD (E6HT209)", "SAHAKAR NAGAR (C8HT-111)"}
    THEN high_grid_rate_per_kwh ELSE low_grid_rate_per_kwh

\* The cost of a consumption of which `renewable` is settled
ActualCost(cons, renewable, rate) ==
    Max(cons - renewable, 0) * rate + renewable * renewable_rate_per_kwh

\* C21: savings computation.  A site is charged the high grid rate iff its
\* composite key is one of the four listed high-rate keys, otherwise the low
\* rate; grid_cost = consumption * rate; the actual cost with banking is
\* max(consumption - (Settlement_with_Banking + Matched_Settlement), 0) *
\* rate + (Settlement_with_Banking + Matched_Settlement) * renewable rate;
\* the actual cost without banking uses Matched_Settlement alone; savings =
\* grid_cost - actual cost in each case.
C21_SavingsComputation ==
    Past("calculate_savings_comparison") =>
        /\ Len(sheets["monthly_saving"]) = Len(sheets["banking_settlement"])
        /\ \A i \in DOMAIN sheets["monthly_saving"] :
              LET r    == sheets["monthly_saving"][i]
                  b    == sheets["banking_settlement"][i]
                  rate == ChargedRate(b.Unit)
                  cons == b.Consumption_value * BankScale
                  matched == b.Matched_Settlement * BankScale
                  both == b.Settlement_with_Banking + matched
              IN /\ r.Unit = b.Unit
                 /\ r.grid_cost = cons * rate
                 /\ r.actual_cost_with_banking = ActualCost(cons, both, rate)
                 /\ r.actual_cost_without_banking = ActualCost(cons, matched, rate)
                 /\ r.savings_with_banking = r.grid_cost - r.actual_cost_with_banking
                 /\ r.savings_without_banking = r.grid_cost - r.actual_cost_without_banking

\* C21 witness: a savings sheet with a high-rate site and a low-rate site,
\* both with consumption, one of them with a banking settlement and a
\* matched settlement.
C21_Witness ==
    /\ Past("calculate_savings_comparison")
    /\ \E i, j \in DOMAIN sheets["monthly_saving"] :
          /\ sheets["monthly_saving"][i].grid_cost
                = sheets["banking_settlement"][i].Consumption_value * BankScale
                     * high_grid_rate_per_kwh
          /\ sheets["monthly_saving"][j].grid_cost
                = sheets["banking_settlement"][j].Consumption_value * BankScale
                     * low_grid_rate_per_kwh
          /\ sheets["banking_settlement"][i].Consumption_value > 0
          /\ sheets["banking_settlement"][j].Consumption_value > 0
          /\ \E k \in {i, j} :
                /\ sheets["banking_settlement"][k].Settlement_with_Banking > 0
                /\ sheets["banking_settlement"][k].Matched_Settlement > 0

(***************************************************************************)
(* Specification SpecUnitId: add_unit_id on a sheet of one or two rows     *)
(* whose site is named in a column Unit, in a column Location, or in       *)
(* neither; the names are those of listed sites, a composite key, and a    *)
(* name that is not in unit_map.                                           *)
(***************************************************************************)
ColumnKinds == {"Unit", "Location", "neither"}

NamesOfKind(kind) ==
    IF kind = "Unit" THEN {UnitNames[1], UnitNames[4], UnitKeys[1], UnlistedName}
    ELSE {UnitNames[1], UnitNames[4], UnlistedName}

\* One row of the input sheet, with the site in the column of the kind
UnitIdRow(kind, name, v) ==
    LET r == WithMatched(SettleRow(AllocDate, SlotA, name, v))
    IN IF kind = "Unit" THEN r
       ELSE [f \in (DOMAIN r \ {"Unit"})
                     \cup (IF kind = "Location" THEN {"Location"} ELSE {}) |->
                IF f = "Location" THEN name ELSE r[f]]

InitUnitId ==
    /\ pc = "add_unit_id"
    /\ \E kind \in ColumnKinds :
          \E a, b \in NamesOfKind(kind) :
              \E va \in (0..MaxValue) \X (0..MaxValue), vb \in RowValues :
                  sheets = [NoSheets EXCEPT !["matched_settlement"] =
                              <<UnitIdRow(kind, a, va)>>
                              \o (IF vb = <<>> THEN <<>> ELSE <<UnitIdRow(kind, b, vb)>>)]

NextUnitId == AddUnitIdStep

SpecUnitId == InitUnitId /\ [][NextUnitId]_vars

(***************************************************************************)
(* Claims about add_unit_id (checked under SpecUnitId).                    *)
(***************************************************************************)
\* The site name of an input row
SiteNameOf(r) == IF "Location" \in DOMAIN r THEN r.Location ELSE r.Unit

\* C22: lookup miss in add_unit_id.  A site name that is not in the
\* site-to-code map does not make the stage fail: the stage writes its
\* output, with one row per input row, and the row of such a name has the
\* composite key "NAME ()" with an empty code.  A sheet with neither a
\* Location nor a Unit column makes the stage fail before anything is
\* written, and nothing else does.
C22_LookupMiss ==
    LET in  == sheets["matched_settlement"]
        out == sheets["matched_settlement_with_id"]
        neither == \A f \in {"Location", "Unit"} : f \notin DOMAIN in[1]
    IN /\ neither => pc \in {"add_unit_id", "stopped"} /\ out = <<>>
       /\ pc = "stopped" => neither
       /\ pc \notin {"add_unit_id", "stopped"} =>
             /\ Len(out) = Len(in)
             /\ \A i \in DOMAIN in :
                   SiteNameOf(in[i]) = "Annexe 1/2" => out[i].Unit = "ANNEXE 1/2 ()"

\* C22 witness: the stage has written a sheet with a row of a listed site
\* and a row of the unlisted name, keyed with an empty code.
C22_Witness ==
    /\ pc = "monthly_aggregation"
    /\ Len(sheets["matched_settlement_with_id"]) = 2
    /\ sheets["matched_settlement_with_id"][1].Unit = "MALLESWARAM (C2HT-136)"
    /\ sheets["matched_settlement_with_id"][2].Unit = "ANNEXE 1/2 ()"
    /\ "Location" \notin DOMAIN sheets["matched_settlement"][1]

(***************************************************************************)
(* The processing workflow of the application: the handler of the button   *)
(* "Run Full Data Processing Workflow".  pc is "idle" between runs, the    *)
(* name of the step the loop is at during a run, and "done" or "stopped"   *)
(* when the loop has ended without or with a failure.  What a step         *)
(* function does to the workbooks is modelled by the step actions above;   *)
(* here a step is a call that returns or raises and the file it writes.    *)
(***************************************************************************)
MaxRuns == 2

\* The file in tmpdir a step writes (the path patched into its arguments)
OutputFileOf(step) ==
    LET k == StepIndex(step)
    IN IF k <= 2 THEN "HRBR_Aug.xlsx"
       ELSE IF k = 3 THEN "hourly_consumption_units_Aug.xlsx"
       ELSE IF k <= 8 THEN "consumption_consolidated_aug.xlsx"
       ELSE IF k <= 11 THEN "Generation_Data_Aug.xlsx"
       ELSE IF k = 12 THEN "Consumption_Generation_Aug25.xlsx"
       ELSE IF k = 13 THEN "Consumption_Generation_Aug25_hourly.xlsx"
       ELSE "Consumption_Generation_Aug25.xlsx"

AddFile(files, f) == IF f \in Range(files) THEN files ELSE Append(files, f)

\* The button is clicked: the placeholders are shown as pending, the
\* results are empty and the temporary directory is created
RunWorkflow ==
    /\ pc = "idle"
    /\ Len(sheets["Final Files"]) < MaxRuns
    /\ sheets' = [sheets EXCEPT
                    !["processing_results"] = <<>>,
                    !["step_placeholders"] = [k \in DOMAIN processing_steps |-> "Pending"],
                    !["tmpdir"] = <<>>]
    /\ pc' = processing_steps[1]

\* One iteration of the loop in which fn(*args, **kwargs) returns
StepPassed ==
    /\ pc \in Range(processing_steps)
    /\ sheets' = [sheets EXCEPT
                    !["processing_results"] = Append(@, [message |-> pc, status |-> "passed"]),
                    !["step_placeholders"][StepIndex(pc)] = "Passed",
                    !["tmpdir"] = AddFile(@, OutputFileOf(pc))]
    /\ pc' = StepAfter(pc)

\* One iteration of the loop in which fn(*args, **kwargs) raises: the
\* remaining steps are marked and the loop is left.  The step may have
\* written its file, in part, before it raised.
StepRaised ==
    /\ pc \in Range(processing_steps)
    /\ \E written \in BOOLEAN :
          sheets' = [sheets EXCEPT
                       !["processing_results"] = Append(@, [message |-> pc, status |-> "failed"]),
                       !["step_placeholders"] =
                           [k \in DOMAIN processing_steps |->
                               IF k < StepIndex(pc) THEN @[k]
                               ELSE IF k = StepIndex(pc) THEN "Failed" ELSE "Not Run"],
                       !["tmpdir"] = IF written THEN AddFile(@, OutputFileOf(pc)) ELSE @]
    /\ pc' = "stopped"

\* The files of a project folder: the two uploads, every file of tmpdir and
\* the monthly_saving workbook made for the download
ProjectFolder(tmpfiles) ==
    [files |-> {"HRBR_Uploaded.xlsx", "Generation_Uploaded.xlsx", "monthly_saving.xlsx"}
                  \cup Range(tmpfiles)]

\* A flag that no failure clears
always_passed == TRUE

\* all_passed after the loop: no step has raised
all_passed == pc = "done"

\* st.session_state: the keys that have been set, with their values
SessionState ==
    IF sheets["session_state"] = <<>> THEN [k \in {} |-> FALSE]
    ELSE sheets["session_state"][1]

\* st.session_state.get(key, default)
Get(key, default) ==
    IF key \in DOMAIN SessionState THEN SessionState[key] ELSE default

\* After the loop: the session state is set, the files are saved when
\* all_passed, and the temporary directory is removed on leaving its block
FinishRun ==
    /\ pc \in {"done", "stopped"}
    /\ sheets' = [sheets EXCEPT
                    !["session_state"] = <<[processing_ready |-> TRUE,
                                            processing_all_passed |-> all_passed]
                                           @@ SessionState>>,
                    !["Final Files"] = IF all_passed
                                       THEN Append(@, ProjectFolder(sheets["tmpdir"]))
                                       ELSE @,
                    !["tmpdir"] = <<>>]
    /\ pc' = "idle"

InitFlow ==
    /\ pc = "idle"
    /\ sheets = NoSheets

NextFlow ==
    \/ RunWorkflow
    \/ StepPassed
    \/ StepRaised
    \/ FinishRun

SpecFlow == InitFlow /\ [][NextFlow]_vars

(***************************************************************************)
(* Claims about the processing workflow (checked under SpecFlow).          *)
(***************************************************************************)
\* The first n results are those of the first n declared steps, all passed
FirstPassed(n) ==
    \A i \in 1..n :
        /\ sheets["processing_results"][i].message = processing_steps[i]
        /\ sheets["processing_results"][i].status = "passed"
        /\ sheets["step_placeholders"][i] = "Passed"

\* C23: workflow sequencing.  The 18 processing steps run in their declared
\* order: when the loop is at step k, exactly the steps before k have run
\* and all have passed; after the first step that raises no later step is
\* run, each of them is marked Not Run, and when the run ends
\* processing_all_passed is recorded as false; it is recorded as true only
\* when all 18 steps have passed.
C23_WorkflowSequencing ==
    LET results == sheets["processing_results"]
        n       == Len(results)
    IN /\ Len(processing_steps) = 18
       /\ pc \in Range(processing_steps) =>
             /\ n = StepIndex(pc) - 1
             /\ FirstPassed(n)
             /\ \A k \in StepIndex(pc)..Len(processing_steps) :
                   sheets["step_placeholders"][k] = "Pending"
       /\ pc = "done" => n = Len(processing_steps) /\ FirstPassed(n)
       /\ pc = "stopped" =>
             /\ n >= 1 /\ FirstPassed(n - 1)
             /\ results[n].message = processing_steps[n]
             /\ results[n].status = "failed"
             /\ sheets["step_placeholders"][n] = "Failed"
             /\ \A k \in (n + 1)..Len(processing_steps) :
                   sheets["step_placeholders"][k] = "Not Run"
       /\ (pc = "idle" /\ sheets["session_state"] # <<>>) =>
             /\ n >= 1
             /\ sheets["session_state"][1].processing_all_passed
                   = (n = Len(processing_steps) /\ results[n].status = "passed")
             /\ results[n].status = "failed" =>
                   ~sheets["session_state"][1].processing_all_passed

\* C23 witness: a run has ended in which the first two steps passed and the
\* third raised; the steps after it are marked Not Run and
\* processing_all_passed is false.
C23_Witness ==
    /\ pc = "idle"
    /\ Len(sheets["processing_results"]) = 3
    /\ sheets["processing_results"][3].status = "failed"
    /\ sheets["step_placeholders"][4] = "Not Run"
    /\ sheets["session_state"] # <<>>
    /\ ~sheets["session_state"][1].processing_all_passed

\* C24: results are persisted only for a fully successful run.  A project
\* folder is added under "Final Files" only at the end of a run in which
\* every step passed, and then it holds every file of the temporary
\* directory; a run in which a step failed adds none; and between runs the
\* temporary directory is gone.
C24_PersistOnlyOnSuccess ==
    /\ [][/\ sheets'["Final Files"] # sheets["Final Files"] =>
                /\ pc = "done"
                /\ Len(sheets["processing_results"]) = Len(processing_steps)
                /\ \A r \in Range(sheets["processing_results"]) : r.status = "passed"
                /\ sheets'["session_state"][1].processing_all_passed
                /\ sheets'["Final Files"] = Append(sheets["Final Files"],
                                                   sheets'["Final Files"][Len(sheets'["Final Files"])])
                /\ Range(sheets["tmpdir"])
                      \subseteq sheets'["Final Files"][Len(sheets'["Final Files"])].files
          /\ (pc = "stopped" /\ pc' = "idle") =>
                /\ sheets'["Final Files"] = sheets["Final Files"]
                /\ ~sheets'["session_state"][1].processing_all_passed
          /\ (pc = "done" /\ pc' = "idle") =>
                Len(sheets'["Final Files"]) = Len(sheets["Final Files"]) + 1
         ]_vars
    /\ [](pc = "idle" => sheets["tmpdir"] = <<>>)

\* C24 witness: after a successful run and a failed one there is exactly
\* one project folder, and the temporary directory is gone.
C24_Witness ==
    /\ pc = "idle"
    /\ Len(sheets["Final Files"]) = 1
    /\ sheets["session_state"] # <<>>
    /\ ~sheets["session_state"][1].processing_all_passed
    /\ sheets["tmpdir"] = <<>>
    /\ "Consumption_Generation_Aug25.xlsx" \in sheets["Final Files"][1].files

(***************************************************************************)
(* Claims about the banking pool (checked under SpecBank).                 *)
(***************************************************************************)
\* The row is settled in part
PartlySettled(r) ==
    0 < r.Settlement_with_Banking /\ r.Settlement_with_Banking < r.Surplus_Demand * BankScale

\* C25: banking pool monotonicity.  Along the order in which the sites of
\* a month are processed the pool never increases and is never negative;
\* once a site is settled in part (0 < settlement < demand) the pool is 0
\* and every site after it gets settlement 0, so that at most one site of a
\* month is settled in part and every site before it is settled in full.
C25_PoolMonotone ==
    Past("apply_monthly_banking_settlement") =>
        \A m \in Range(MonthOrder) :
            LET rows == BankRows(m)
            IN /\ \E o \in Perms(DOMAIN rows) :
                     /\ IsBankingOrder(rows, o)
                     /\ \A i \in DOMAIN o :
                           LET before == IF i = 1 THEN InitialPool(m)
                                         ELSE rows[o[i - 1]].Surplus_Generation_After_Banking
                               after  == rows[o[i]].Surplus_Generation_After_Banking
                           IN /\ 0 <= after /\ after <= before
                              /\ PartlySettled(rows[o[i]]) =>
                                    /\ after = 0
                                    /\ \A j \in DOMAIN o :
                                          j > i => rows[o[j]].Settlement_with_Banking = 0
                                    /\ \A j \in DOMAIN o :
                                          j < i => rows[o[j]].Settlement_with_Banking
                                                      = rows[o[j]].Surplus_Demand * BankScale
               /\ Cardinality({i \in DOMAIN rows : PartlySettled(rows[i])}) <= 1

\* C25 witness: a month in which two sites with a deficit are settled in
\* full, a third in part and a fourth, with a deficit, not at all.
C25_Witness ==
    /\ Past("apply_monthly_banking_settlement")
    /\ \E a, b, c, d \in DOMAIN sheets["banking_settlement"] :
          LET rows == sheets["banking_settlement"]
          IN /\ a # b
             /\ rows[a].Surplus_Demand > 0 /\ rows[b].Surplus_Demand > 0
             /\ rows[a].Settlement_with_Banking = rows[a].Surplus_Demand * BankScale
             /\ rows[b].Settlement_with_Banking = rows[b].Surplus_Demand * BankScale
             /\ rows[a].Surplus_Generation_After_Banking
                   > rows[b].Surplus_Generation_After_Banking
             /\ PartlySettled(rows[c])
             /\ rows[d].Surplus_Demand > 0 /\ rows[d].Settlement_with_Banking = 0

\* C26: banking creates no energy.  For every month the sum of
\* Settlement_with_Banking over all sites is at most the month's initial
\* pool, the sum of Surplus_Generation over all sites.
C26_NoEnergyCreated ==
    Past("apply_monthly_banking_settlement") =>
        \A m \in Range(MonthOrder) :
            SumSeq(Col(BankRows(m), "Settlement_with_Banking")) <= InitialPool(m)

\* C26 witness: a month with a positive pool that is used up, by a full
\* and a partial settlement which together are less than the pool.
C26_Witness ==
    /\ Past("apply_monthly_banking_settlement")
    /\ \E m \in Range(MonthOrder) :
          /\ InitialPool(m) > 0
          /\ \E r \in Range(BankRows(m)) : PartlySettled(r)
          /\ \E r \in Range(BankRows(m)) :
                r.Surplus_Demand > 0 /\ r.Settlement_with_Banking = r.Surplus_Demand * BankScale
          /\ \A r \in Range(BankRows(m)) : r.Surplus_Generation_After_Banking = 0 \/ ~PartlySettled(r)
          /\ SumSeq(Col(BankRows(m), "Settlement_with_Banking")) < InitialPool(m)

(***************************************************************************)
(* Claims about the matched settlement of the pipeline (checked under      *)
(* SpecPipe).                                                              *)
(***************************************************************************)
\* C27: matched settlement equals allocated generation.  The Allocation
\* Engine never allocates more than a site's consumption, so every
\* 15-minute row has Matched_Settlement = Generation_value, and every
\* monthly row has Matched_Settlement = Generation_value and
\* Matched_Settlement <= Consumption_value.
C27_MatchedEqualsAllocated ==
    /\ Past("merge_generation_consumption") =>
          \A r \in Range(sheets["15 mins"]) : r.Generation_value <= r.Consumption_value
    /\ Past("calculate_matched_settlement") =>
          \A r \in Range(sheets["matched_settlement"]) :
              r.Matched_Settlement = r.Generation_value
    /\ Past("monthly_aggregation") =>
          \A r \in Range(sheets["monthly"]) :
              /\ r.Matched_Settlement = r.Generation_value
              /\ r.Matched_Settlement <= r.Consumption_value

\* C27 witness: a monthly sheet with a site that was allocated part of its
\* consumption and a site with surplus generation recorded on it.
C27_Witness ==
    /\ Past("monthly_aggregation")
    /\ \E r \in Range(sheets["monthly"]) :
          0 < r.Matched_Settlement /\ r.Matched_Settlement < r.Consumption_value
    /\ \E r \in Range(sheets["monthly"]) :
          r.Surplus_Generation > 0 /\ r.Matched_Settlement > 0

(***************************************************************************)
(* Claims about the slots of the allocation output (checked under          *)
(* SpecAlloc).                                                             *)
(***************************************************************************)
\* The slots of the consumption sheet
ConsSlots == {<<r.Date, r.Time>> : r \in Range(sheets["15_mins"])}

\* C28: the allocation output is driven by generation slots only.  It has
\* rows only for slots that have a generation record; a consumption row
\* whose slot has no generation record appears nowhere in the output; and
\* the generation of a slot without consumption rows is recorded in no
\* output row.
C28_GenerationSlotsOnly ==
    Past("merge_generation_consumption") =>
        /\ \A r \in Range(sheets["15 mins"]) :
              <<r.Date, r.Time>> \in GenSlots(sheets["gen_15_mins"])
        /\ \A slot \in ConsSlots \ GenSlots(sheets["gen_15_mins"]) : OutRows(slot) = <<>>
        /\ \A slot \in GenSlots(sheets["gen_15_mins"]) \ ConsSlots :
              /\ OutRows(slot) = <<>>
              /\ SumSeq(Col(sheets["15 mins"], "Generation_value"))
                    + SumSeq(Col(sheets["15 mins"], "Surplus_Generation"))
                 = SumSeq([i \in DOMAIN SortedSlots(GenSlots(sheets["gen_15_mins"]) \cap ConsSlots) |->
                             SlotGeneration(sheets["gen_15_mins"],
                                 SortedSlots(GenSlots(sheets["gen_15_mins"]) \cap ConsSlots)[i])])

\* C28 witness: the output of a run in which one slot has a generation
\* record with positive generation and no consumption row, and the other
\* slot has both and gives the output its rows.
C28_Witness ==
    /\ Past("merge_generation_consumption")
    /\ sheets["15 mins"] # <<>>
    /\ \E slot \in GenSlots(sheets["gen_15_mins"]) \ ConsSlots :
          SlotGeneration(sheets["gen_15_mins"], slot) > 0

(***************************************************************************)
(* The wizard of app.py.  The script is run again after every interaction; *)
(* one run renders the step its if/elif chain selects and handles at most  *)
(* one button.  The session state is the record kept in                    *)
(* sheets["session_state"]; a key that has not been set is not in its      *)
(* domain.  gen_type is one of the two options of its select box, so the   *)
(* "Metadata Missing" branch of steps 2 to 4 is never taken.  The buttons  *)
(* are handled between the runs of the processing workflow (pc = "idle").  *)
(***************************************************************************)
\* The messages of validation_steps
validation_steps ==
    <<"Checking required columns...", "Checking for missing values...",
      "Checking for positive values...", "Checking for non-empty data...",
      "Checking month consistency...">>

\* What an uploader holds: nothing, a file read_excel raises on, or a
\* readable file with the index of the first check that raises on it (0
\* when none does)
None == [present |-> FALSE, readable |-> FALSE, failing |-> 0]

FailingChecks == {0, 1, Len(validation_steps)}

Uploads ==
    {None, [present |-> TRUE, readable |-> FALSE, failing |-> 0]}
    \cup {[present |-> TRUE, readable |-> TRUE, failing |-> k] : k \in FailingChecks}

\* The outer try raises: no file, or a file read_excel cannot read
ValidationRaises(file) == ~file.present \/ ~file.readable

\* all_passed after the loop over validation_steps
ChecksPassed(file) == file.failing = 0

\* validation_results after the loop, or after the outer except
ValidationResults(file, final) ==
    IF ValidationRaises(file)
    THEN <<[message |-> "Validation failed", status |-> "failed"]>>
    ELSE IF ChecksPassed(file)
    THEN [k \in DOMAIN validation_steps |->
             [message |-> validation_steps[k], status |-> "passed"]]
         \o <<[message |-> final, status |-> "final_pass"]>>
    ELSE [k \in 1..file.failing |->
             [message |-> validation_steps[k],
              status  |-> IF k < file.failing THEN "passed" ELSE "failed"]]

\* The session state after init_session_state
init_session_state ==
    [flow_step |-> 1, validation_passed |-> FALSE, client_name |-> "",
     month |-> "", gen_type |-> "Solar", data_upload_type |-> "Generation"]

\* st.session_state[k] = v for every item of upd
SetState(upd) ==
    sheets' = [sheets EXCEPT !["session_state"] = <<upd @@ SessionState>>]

\* The step the if/elif chain renders, 0 when no branch is taken
Rendered ==
    LET flow_step == Get("flow_step", 0)
    IN IF flow_step = 1 THEN 1
       ELSE IF flow_step = 2 THEN 2
       ELSE IF flow_step = 3 /\ Get("validation_passed_consumption", FALSE) THEN 3
       ELSE IF flow_step = 4 /\ Get("validation_passed_generation", FALSE) THEN 4
       ELSE 0

\* The results are shown with a Continue button whatever the validation gave
ContinueAlwaysOffered(ready_key, passed_key) == Get(ready_key, FALSE)

\* The Continue button is shown: the results are ready and the validation
\* has passed
ContinueOffered(ready_key, passed_key) ==
    Get(ready_key, FALSE) /\ Get(passed_key, FALSE)

\* The Retry button is shown: the results are ready and the validation has
\* not passed
RetryOffered(ready_key, passed_key) ==
    Get(ready_key, FALSE) /\ ~Get(passed_key, FALSE)

\* Step 1: "Next: Provide Data Inputs"
SubmitMetadata ==
    /\ pc = "idle" /\ Rendered = 1
    /\ \E gen_type \in {"Solar", "Wind"} :
          SetState([client_name |-> "Client", month |-> "August",
                    gen_type |-> gen_type, flow_step |-> 2])
    /\ UNCHANGED pc

\* Step 2: "Back"
BackToMetadata ==
    /\ pc = "idle" /\ Rendered = 2
    /\ SetState([flow_step |-> 1])
    /\ UNCHANGED pc

\* Step 2: "Validate Consumption Data"
ValidateConsumption ==
    /\ pc = "idle" /\ Rendered = 2
    /\ \E hrbr_file \in Uploads :
          LET validation_results ==
                  ValidationResults(hrbr_file, "All consumption data validations passed!")
          IN IF ValidationRaises(hrbr_file)
             THEN SetState([consumption_validation_results |-> validation_results,
                            consumption_validation_ready |-> TRUE,
                            validation_passed_consumption |-> FALSE])
             ELSE SetState([consumption_validation_results |-> validation_results,
                            consumption_validation_ready |-> TRUE,
                            hrbr_file |-> hrbr_file,
                            unit_values |-> "DEFAULT_UNIT_VALUES",
                            validation_passed_consumption |-> ChecksPassed(hrbr_file)])
    /\ UNCHANGED pc

\* Step 2: "Continue to Generation Data Input"
ContinueToGeneration ==
    /\ pc = "idle" /\ Rendered = 2
    /\ ContinueOffered("consumption_validation_ready", "validation_passed_consumption")
    /\ SetState([flow_step |-> 3, consumption_validation_ready |-> FALSE])
    /\ UNCHANGED pc

\* Step 2: "Retry Consumption Validation"
RetryConsumption ==
    /\ pc = "idle" /\ Rendered = 2
    /\ RetryOffered("consumption_validation_ready", "validation_passed_consumption")
    /\ SetState([consumption_validation_ready |-> FALSE,
                 consumption_validation_results |-> <<>>])
    /\ UNCHANGED pc

\* Step 3: "Back"
BackToConsumption ==
    /\ pc = "idle" /\ Rendered = 3
    /\ SetState([flow_step |-> 2])
    /\ UNCHANGED pc

\* Step 3: "Validate Generation Data"
ValidateGeneration ==
    /\ pc = "idle" /\ Rendered = 3
    /\ \E gen_excel \in Uploads :
          LET validation_results ==
                  ValidationResults(gen_excel, "All generation data validations passed!")
          IN IF ValidationRaises(gen_excel)
             THEN SetState([generation_validation_results |-> validation_results,
                            generation_validation_ready |-> TRUE,
                            validation_passed_generation |-> FALSE])
             ELSE SetState([generation_validation_results |-> validation_results,
                            generation_validation_ready |-> TRUE,
                            gen_excel_file |-> gen_excel,
                            validation_passed_generation |-> ChecksPassed(gen_excel)])
    /\ UNCHANGED pc

\* Step 3: "Continue to Automation Step"
ContinueToAutomation ==
    /\ pc = "idle" /\ Rendered = 3
    /\ ContinueOffered("generation_validation_ready", "validation_passed_generation")
    /\ SetState([flow_step |-> 4, generation_validation_ready |-> FALSE])
    /\ UNCHANGED pc

\* Step 3: "Retry Generation Validation"
RetryGeneration ==
    /\ pc = "idle" /\ Rendered = 3
    /\ RetryOffered("generation_validation_ready", "validation_passed_generation")
    /\ SetState([generation_validation_ready |-> FALSE,
                 generation_validation_results |-> <<>>])
    /\ UNCHANGED pc

\* Step 4: "Run Full Data Processing Workflow"
RunFullWorkflow ==
    /\ Rendered = 4
    /\ RunWorkflow

\* Step 4: "Back"
BackToGeneration ==
    /\ pc = "idle" /\ Rendered = 4
    /\ SetState([flow_step |-> 3])
    /\ UNCHANGED pc

\* Step 4: "Clear Processing Results"
ClearProcessingResults ==
    /\ pc = "idle" /\ Rendered = 4
    /\ Get("processing_ready", FALSE)
    /\ sheets' = [sheets EXCEPT
                    !["session_state"] = <<[processing_ready |-> FALSE] @@ SessionState>>,
                    !["processing_results"] = <<>>]
    /\ UNCHANGED pc

InitWizard ==
    /\ pc = "idle"
    /\ sheets = [NoSheets EXCEPT !["session_state"] = <<init_session_state>>]

NextWizard ==
    \/ SubmitMetadata
    \/ BackToMetadata
    \/ ValidateConsumption
    \/ ContinueToGeneration
    \/ RetryConsumption
    \/ BackToConsumption
    \/ ValidateGeneration
    \/ ContinueToAutomation
    \/ RetryGeneration
    \/ RunFullWorkflow
    \/ StepPassed
    \/ StepRaised
    \/ FinishRun
    \/ BackToGeneration
    \/ ClearProcessingResults

SpecWizard == InitWizard /\ [][NextWizard]_vars

(***************************************************************************)
(* Claims about the wizard (checked under SpecWizard).                     *)
(***************************************************************************)
\* The file kept under the key is one on which every validation check passed
PassedAllChecks(key) ==
    /\ key \in DOMAIN SessionState
    /\ ~ValidationRaises(SessionState[key])
    /\ ChecksPassed(SessionState[key])

\* C29: wizard gating invariant.  In every reachable session state,
\* flow_step = 3 implies that validation_passed_consumption is true and
\* flow_step = 4 implies that validation_passed_consumption and
\* validation_passed_generation are both true, whatever Next, Back,
\* Validate, Retry and Continue buttons were pressed; so whenever the
\* processing workflow is running, the HRBR file and the generation file of
\* the session state are files that passed every validation check; and
\* there is no reachable session state in which no step is rendered.
C29_WizardGating ==
    /\ Get("flow_step", 0) = 3 => Get("validation_passed_consumption", FALSE)
    /\ Get("flow_step", 0) = 4 =>
          /\ Get("validation_passed_consumption", FALSE)
          /\ Get("validation_passed_generation", FALSE)
    /\ pc # "idle" =>
          /\ Get("flow_step", 0) = 4
          /\ PassedAllChecks("hrbr_file")
          /\ PassedAllChecks("gen_excel_file")
    /\ Rendered # 0

\* C29 witness: step 4 is rendered and the workflow is running for the
\* second time in the session (a project folder has been saved), on an
\* HRBR file and a generation file that passed every check.
C29_Witness ==
    /\ pc \in Range(processing_steps)
    /\ Get("flow_step", 0) = 4
    /\ sheets["Final Files"] # <<>>
    /\ PassedAllChecks("hrbr_file")
    /\ PassedAllChecks("gen_excel_file")

(***************************************************************************)
(* Claims about the totals and the dates of the ToD sheet (checked under   *)
(* SpecTod).                                                               *)
(***************************************************************************)
\* The dates of the sheet ToD
TodDates == {t.Date : t \in Range(sheets["ToD"])}

\* The total of a column over the rows of a site
SiteTotal(df, unit, col) ==
    LET OfSite(r) == r.Unit = unit
    IN SumSeq(Col(SelectSeq(df, OfSite), col))

\* For every site the Values of ToD add up to the site's hourly Consumption
TodConserves ==
    \A u \in Range(TodSites) :
        SiteTotal(sheets["ToD"], u, "Value") = SiteTotal(sheets["hourly"], u, "Consumption")

\* The final date of the hourly sheet has a reading at hour 22 or 23
FinalDateHasLate ==
    \E r \in Range(sheets["hourly"]) :
        r.Date = FinalDate /\ IsLateHour(r.Time \div MinutesPerHour)

\* C30 as stated: ToD merge conserves consumption.  For every site the sum
\* of Value over the rows of ToD equals the sum of Consumption over the
\* site's hourly rows, and when the final date has readings at hours 22-23
\* the dates of ToD are a subset of the dates of the hourly sheet.
C30_TodConservesConsumption ==
    Past("merge_hourly_to_tod") =>
        /\ TodConserves
        /\ FinalDateHasLate => TodDates \subseteq HourlyDates

\* C30 amended: for every site the sum of Value over the rows of ToD equals
\* the sum of Consumption over the site's hourly rows, and every date of
\* ToD is a date of the hourly sheet or the day after a date on which the
\* hourly sheet has a reading at hour 22 or 23.
C30_TodConservesAmended ==
    Past("merge_hourly_to_tod") =>
        /\ TodConserves
        /\ \A d \in TodDates :
              \/ d \in HourlyDates
              \/ \E r \in Range(sheets["hourly"]) :
                    IsLateHour(r.Time \div MinutesPerHour) /\ r.Date + 1 = d

\* C30 witness: ToD has been written from a sheet whose final date has a
\* reading at hour 22, two readings of a site have been summed in one row,
\* and ToD has a date that the hourly sheet has not.
C30_Witness ==
    /\ Past("merge_hourly_to_tod")
    /\ FinalDateHasLate
    /\ TodDates \ HourlyDates # {}
    /\ \E t \in Range(sheets["ToD"]) : t.Value > 8

=============================================================================
